---------------------------- MODULE Spec2Model ----------------------------
(***************************************************************************)
(* Clock-tree configuration of the STM32L4x6 HAL (src/rcc/mod.rs and       *)
(* src/rcc/clocking.rs): the PLL composer, the CFGR builder and            *)
(* CFGR::freeze with the register writes and ready-flag polls it makes;    *)
(* the flat variant src/rcc.rs where it differs; the backup-domain calls   *)
(* of BDCR; calculate_frame_rate, init_lse and validate of the LCD driver; *)
(* lse_enable and lsi_enable; the clock an SPI derives its baud rate from; *)
(* into_alt_fun of a GPIO pin (src/gpio/mod.rs).                           *)
(*                                                                         *)
(* Frequencies are in Hz, as in the source.  Every u32 product formed by   *)
(* the modelled code has a first factor of at most 16 MHz and a u8 second  *)
(* factor, so it stays below 2^31 (see C5_FreqIsFormulaNoOverflow).        *)
(*                                                                         *)
(* Registers are memory cells whose software-written fields take the       *)
(* value written; the ready flags (MSIRDY, HSIRDY, HSERDY, PLLRDY, LSERDY, *)
(* LSIRDY) are driven by the hardware and follow the matching ON bit after *)
(* an arbitrary delay.                                                     *)
(***************************************************************************)
EXTENDS Integers, Sequences, FiniteSets, TLC

VARIABLES
    pc,         \* position of the program
    cfgr,       \* the CFGR builder: [hclk, pclk1, pclk2, sysclk]
    cr,         \* RCC_CR
    pllcfgr,    \* RCC_PLLCFGR
    bdcr,       \* RCC_BDCR
    rcc_cfgr,   \* RCC_CFGR (the register, not the builder)
    apb1enr1,   \* RCC_APB1ENR1
    flash_acr,  \* FLASH_ACR
    pwr_cr1,    \* PWR_CR1
    csr,        \* RCC_CSR
    local,      \* locals of freeze: sys_clock, sw_bits, hpre_bits, ...
    clocks,     \* Option<Clocks>: the value freeze returned
    log,        \* history: the register writes and completed polls, in order
    pll_args,   \* arguments of a PLLClkOutput::new call
    pll_out,    \* Option of the outcome of that call
    call,       \* the last call made outside the CFGR builder, with its arguments
    ret         \* Option of what that call returned

vars == <<pc, cfgr, cr, pllcfgr, bdcr, rcc_cfgr, apb1enr1, flash_acr, pwr_cr1,
          csr, local, clocks, log, pll_args, pll_out, call, ret>>

-----------------------------------------------------------------------------
(* Option<T> *)

None == <<>>

Some(x) == <<x>>

IsSome(o) == o # None

Unwrap(o) == o[1]

-----------------------------------------------------------------------------
(* Program constants *)

SYS_CLOCK_MAX == 80000000

HSI16_FREQ == 16000000

-----------------------------------------------------------------------------
(* Bounds of the explored inputs *)

MaxM == 9

MinN == 6

MaxN == 88

MaxR == 9

-----------------------------------------------------------------------------
(* Clock sources (clocking.rs).  One record shape for the three            *)
(* oscillators; the fields a kind does not have are FALSE / its fixed      *)
(* frequency.                                                              *)

MediumSpeedInternalRC(freq, auto_cal) ==
    [kind |-> "MSI", freq |-> freq, auto_cal |-> auto_cal,
     always_on |-> FALSE, auto_start |-> FALSE]

HighSpeedInternal16RC(always_on, auto_start) ==
    [kind |-> "HSI16", freq |-> HSI16_FREQ, auto_cal |-> FALSE,
     always_on |-> always_on, auto_start |-> auto_start]

HighSpeedExternalOSC(freq) ==
    [kind |-> "HSE", freq |-> freq, auto_cal |-> FALSE,
     always_on |-> FALSE, auto_start |-> FALSE]

PLLClkSourceNone ==
    [kind |-> "None", freq |-> 0, auto_cal |-> FALSE,
     always_on |-> FALSE, auto_start |-> FALSE]

\* InputClock::freq for PLLClkSource and for the oscillators
SrcFreq(src) ==
    CASE src.kind = "None"  -> 0
      [] src.kind = "MSI"   -> src.freq
      [] src.kind = "HSI16" -> 16000000
      [] src.kind = "HSE"   -> src.freq

-----------------------------------------------------------------------------
(* PLLClkOutput::new (clocking.rs:223-238)                                 *)

\* a range check that forgets the lower end
ValidMNoLowerBound(m) == m < 9

ValidM(m) == m > 0 /\ m < 9

ValidN(n) == n > 7 /\ n < 87

ValidR(r) == r = 2 \/ r = 4 \/ r = 6 \/ r = 8

VcoIfOk(vco_if) == vco_if >= 4000000 /\ vco_if <= 16000000

\* a VCO output window without its upper end
VcoOfOkNoUpperBound(vco_of) == vco_of >= 64000000

VcoOfOk(vco_of) == vco_of >= 64000000 /\ vco_of <= 344000000

\* the comparison of the doc comment (">80 MHz" is invalid) instead of the code's
FOkInclusive(f) == f <= SYS_CLOCK_MAX

FOk(f) == f < SYS_CLOCK_MAX

\* the multiplication taken before the division by m
PllFMulFirst(src, m, n, r) == ((SrcFreq(src) * n) \div m) \div r

\* let f = src.freq() / m as u32 * n as u32 / r as u32;
PllF(src, m, n, r) == ((SrcFreq(src) \div m) * n) \div r

PllPanic(src, m, n, r, why) ==
    [ok |-> FALSE, fail |-> why, src |-> src, m |-> m, n |-> n, r |-> r, f |-> 0]

\* The outcome of PLLClkOutput::new: the constructed value (ok) or the
\* assertion that panicked, the assertions taken in the order of the code.
PLLClkOutputNew(src, m, n, r) ==
    IF ~ValidM(m) THEN PllPanic(src, m, n, r, "assert_m")
    ELSE IF ~ValidN(n) THEN PllPanic(src, m, n, r, "assert_n")
    ELSE IF ~ValidR(r) THEN PllPanic(src, m, n, r, "assert_r")
    ELSE IF m = 0 THEN PllPanic(src, m, n, r, "divide_by_zero")
    ELSE LET vco_if == SrcFreq(src) \div m IN
    IF ~VcoIfOk(vco_if) THEN PllPanic(src, m, n, r, "assert_vco_if")
    ELSE LET vco_of == vco_if * n IN
    IF ~VcoOfOk(vco_of) THEN PllPanic(src, m, n, r, "assert_vco_of")
    ELSE IF r = 0 THEN PllPanic(src, m, n, r, "divide_by_zero")
    ELSE LET f == PllF(src, m, n, r) IN
    IF ~FOk(f) THEN PllPanic(src, m, n, r, "assert_f")
    ELSE [ok |-> TRUE, fail |-> "none", src |-> src, m |-> m, n |-> n, r |-> r, f |-> f]

\* InputClock::freq for PLLClkOutput
PllFreq(pll) == pll.f

-----------------------------------------------------------------------------
(* Inputs explored by the clock-configuration specification                *)

MsiFreqs == {4000000, 48000000, 5000000}

HseFreqs == {8000000, 40000000}

LeafSources ==
    {MediumSpeedInternalRC(f, a) : f \in MsiFreqs, a \in BOOLEAN}
    \cup {HighSpeedInternal16RC(FALSE, FALSE), HighSpeedInternal16RC(TRUE, TRUE)}
    \cup {HighSpeedExternalOSC(f) : f \in HseFreqs}

\* PLLClkOutput::new calls made by the application before sysclk()
FreezePllCalls ==
    {PLLClkOutputNew(HighSpeedInternal16RC(FALSE, FALSE), 1, 8, 2),
     PLLClkOutputNew(HighSpeedInternal16RC(FALSE, FALSE), 2, 10, 2),
     PLLClkOutputNew(MediumSpeedInternalRC(4000000, FALSE), 1, 16, 2),
     PLLClkOutputNew(MediumSpeedInternalRC(4000000, TRUE), 1, 16, 4),
     PLLClkOutputNew(HighSpeedExternalOSC(8000000), 1, 10, 8),
     PLLClkOutputNew(HighSpeedInternal16RC(FALSE, FALSE), 1, 40, 2),
     PLLClkOutputNew(HighSpeedInternal16RC(FALSE, FALSE), 2, 20, 2)}

\* SysClkSource::PLL(s): only values PLLClkOutput::new returned exist
SysClkSourcePLL(p) ==
    [kind |-> "PLL", src |-> p.src, m |-> p.m, n |-> p.n, r |-> p.r, f |-> p.f]

SysClkSources ==
    LeafSources \cup {SysClkSourcePLL(p) : p \in {q \in FreezePllCalls : q.ok}}

HclkTargets == {0, 1000000, 4000000, 100000000}

PclkTargets == {125000, 1000000, 4000000}

\* InputClock::freq for SysClkSource
SysClkFreq(s) ==
    CASE s.kind = "HSI16" -> 16000000
      [] s.kind = "MSI"   -> s.freq
      [] s.kind = "HSE"   -> s.freq
      [] s.kind = "PLL"   -> PllFreq(s)

-----------------------------------------------------------------------------
(* Pure parts of the configure procedures and of freeze                    *)

\* a bits() that falls back to the 4 MHz range instead of panicking
MsiBitsFallsBack(freq) ==
    CASE freq = 100000   -> Some(0)
      [] freq = 200000   -> Some(1)
      [] freq = 400000   -> Some(2)
      [] freq = 800000   -> Some(3)
      [] freq = 1000000  -> Some(4)
      [] freq = 2000000  -> Some(5)
      [] freq = 4000000  -> Some(6)
      [] freq = 8000000  -> Some(7)
      [] freq = 16000000 -> Some(8)
      [] freq = 24000000 -> Some(9)
      [] freq = 32000000 -> Some(10)
      [] freq = 48000000 -> Some(11)
      [] OTHER           -> Some(6)

\* MediumSpeedInternalRC::bits: Some(MSIRANGE code), None where it panics
MsiBits(freq) ==
    CASE freq = 100000   -> Some(0)
      [] freq = 200000   -> Some(1)
      [] freq = 400000   -> Some(2)
      [] freq = 800000   -> Some(3)
      [] freq = 1000000  -> Some(4)
      [] freq = 2000000  -> Some(5)
      [] freq = 4000000  -> Some(6)
      [] freq = 8000000  -> Some(7)
      [] freq = 16000000 -> Some(8)
      [] freq = 24000000 -> Some(9)
      [] freq = 32000000 -> Some(10)
      [] freq = 48000000 -> Some(11)
      [] OTHER           -> None

\* the value PLLClkSource::configure returns
PllSrcBits(src) ==
    CASE src.kind = "None"  -> 0
      [] src.kind = "MSI"   -> 1
      [] src.kind = "HSI16" -> 2
      [] src.kind = "HSE"   -> 3

\* r written to the PLLR field as it is
PllRBitsRaw(r) == Some(r)

\* the PLLR field for r; None where configure panics ("bad PLL R value")
PllRBits(r) ==
    CASE r = 2 -> Some(0)
      [] r = 4 -> Some(1)
      [] r = 6 -> Some(2)
      [] r = 8 -> Some(3)
      [] OTHER -> None

\* the second component of what each configure returns
SwBits(s) ==
    CASE s.kind = "MSI"   -> 0
      [] s.kind = "HSI16" -> 1
      [] s.kind = "HSE"   -> 2
      [] s.kind = "PLL"   -> 3

\* target.map(|t| input / t), with the division by zero that panics
RatioPanics(target) == IsSome(target) /\ Unwrap(target) = 0

Ratio(target, input) ==
    IF IsSome(target) THEN Some(input \div Unwrap(target)) ELSE None

InRange(q, lo, hi) == IsSome(q) /\ Unwrap(q) >= lo /\ Unwrap(q) <= hi

\* a lookup without the Some(0) arm: a ratio of 0 falls through to `_`
BucketNeverPanics(q) == FALSE

\* Some(0) => unreachable!()
BucketPanics(q) == q = Some(0)

\* the arms 12...39 and 40...95 with their codes exchanged
HpreBitsArmsExchanged(q) ==
    CASE q = Some(1)           -> 7
      [] q = Some(2)           -> 8
      [] InRange(q, 3, 5)      -> 9
      [] InRange(q, 6, 11)     -> 10
      [] InRange(q, 12, 39)    -> 12
      [] InRange(q, 40, 95)    -> 11
      [] InRange(q, 96, 191)   -> 13
      [] InRange(q, 192, 383)  -> 14
      [] OTHER                 -> 15

\* the match that yields hpre_bits (arms after Some(0))
HpreBits(q) ==
    CASE q = Some(1)           -> 7
      [] q = Some(2)           -> 8
      [] InRange(q, 3, 5)      -> 9
      [] InRange(q, 6, 11)     -> 10
      [] InRange(q, 12, 39)    -> 11
      [] InRange(q, 40, 95)    -> 12
      [] InRange(q, 96, 191)   -> 13
      [] InRange(q, 192, 383)  -> 14
      [] OTHER                 -> 15

\* the match that yields ppre1_bits and ppre2_bits (arms after Some(0))
PpreBits(q) ==
    CASE q = Some(1)        -> 3
      [] q = Some(2)        -> 4
      [] InRange(q, 3, 5)   -> 5
      [] InRange(q, 6, 11)  -> 6
      [] OTHER              -> 7

\* sys_clock / (1 << (hpre_bits - 0b0111))
AhbOf(sys_clock, hpre_bits) == sys_clock \div (2 ^ (hpre_bits - 7))

\* 1 << (ppre_bits - 0b011)
PpreOf(ppre_bits) == 2 ^ (ppre_bits - 3)

\* the latency chain of freeze, with the literals as written in the source
Latency(sys_clock) ==
    IF sys_clock <= 16000000 THEN 0
    ELSE IF sys_clock <= 32000000 THEN 1
    ELSE IF sys_clock <= 4800000 THEN 2
    ELSE IF sys_clock <= 6400000 THEN 3
    ELSE 4

NoLocals ==
    [sys_clock |-> 0, sw_bits |-> 0, hpre_bits |-> 0, ahb |-> 0,
     ppre1_bits |-> 0, ppre1 |-> 0, apb1 |-> 0,
     ppre2_bits |-> 0, ppre2 |-> 0, apb2 |-> 0, latency |-> 0]

\* freeze from "let hpre_bits" to "let latency": whether it panics ...
ComputePanics(c) ==
    LET sys_clock == SysClkFreq(c.sysclk) IN
    \/ RatioPanics(c.hclk)
    \/ BucketPanics(Ratio(c.hclk, sys_clock))
    \/ LET ahb == AhbOf(sys_clock, HpreBits(Ratio(c.hclk, sys_clock))) IN
        \/ RatioPanics(c.pclk1)
        \/ BucketPanics(Ratio(c.pclk1, ahb))
        \/ RatioPanics(c.pclk2)
        \/ BucketPanics(Ratio(c.pclk2, ahb))

\* the APB frequencies taken from SYSCLK instead of the AHB frequency
ComputeLocalsApbFromSysclk(c) ==
    LET sys_clock  == SysClkFreq(c.sysclk)
        hpre_bits  == HpreBits(Ratio(c.hclk, sys_clock))
        ahb        == AhbOf(sys_clock, hpre_bits)
        ppre1_bits == PpreBits(Ratio(c.pclk1, ahb))
        ppre1      == PpreOf(ppre1_bits)
        ppre2_bits == PpreBits(Ratio(c.pclk2, ahb))
        ppre2      == PpreOf(ppre2_bits)
    IN  [sys_clock |-> sys_clock, sw_bits |-> SwBits(c.sysclk),
         hpre_bits |-> hpre_bits, ahb |-> ahb,
         ppre1_bits |-> ppre1_bits, ppre1 |-> ppre1, apb1 |-> sys_clock \div ppre1,
         ppre2_bits |-> ppre2_bits, ppre2 |-> ppre2, apb2 |-> sys_clock \div ppre2,
         latency |-> Latency(sys_clock)]

\* ... and the locals it computes when it does not
ComputeLocals(c) ==
    LET sys_clock  == SysClkFreq(c.sysclk)
        hpre_bits  == HpreBits(Ratio(c.hclk, sys_clock))
        ahb        == AhbOf(sys_clock, hpre_bits)
        ppre1_bits == PpreBits(Ratio(c.pclk1, ahb))
        ppre1      == PpreOf(ppre1_bits)
        ppre2_bits == PpreBits(Ratio(c.pclk2, ahb))
        ppre2      == PpreOf(ppre2_bits)
    IN  [sys_clock |-> sys_clock, sw_bits |-> SwBits(c.sysclk),
         hpre_bits |-> hpre_bits, ahb |-> ahb,
         ppre1_bits |-> ppre1_bits, ppre1 |-> ppre1, apb1 |-> ahb \div ppre1,
         ppre2_bits |-> ppre2_bits, ppre2 |-> ppre2, apb2 |-> ahb \div ppre2,
         latency |-> Latency(sys_clock)]

\* the Clocks value freeze returns
ClocksOf(c, l) ==
    [hclk |-> l.ahb, pclk1 |-> l.apb1, pclk2 |-> l.apb2, sysclk |-> l.sys_clock,
     pll_src |-> IF c.sysclk.kind = "PLL" THEN Some(c.sysclk.src) ELSE None,
     pll_psc |-> IF c.sysclk.kind = "PLL" THEN Some(c.sysclk.m) ELSE None,
     ppre1 |-> l.ppre1, ppre2 |-> l.ppre2]

-----------------------------------------------------------------------------
(* State after reset, before RCC.constrain()                               *)

ResetCR ==
    [msion |-> TRUE, msirdy |-> TRUE, msirange |-> 6, msirgsel |-> FALSE,
     msipllen |-> FALSE,
     hsion |-> FALSE, hsikeron |-> FALSE, hsiasfs |-> FALSE, hsirdy |-> FALSE,
     hseon |-> FALSE, hserdy |-> FALSE, pllon |-> FALSE, pllrdy |-> FALSE]

ResetPLLCFGR ==
    [pllsrc |-> 0, pllm |-> 0, plln |-> 16, pllr |-> 0, pllren |-> FALSE]

\* the backup domain keeps its state over a system reset: LSE on or off
ResetBDCR(lse) ==
    [lseon |-> lse, lserdy |-> lse, lsedrv |-> 0, rtcsel |-> 0,
     rtcen |-> FALSE, bdrst |-> FALSE]

ResetCFGR == [sw |-> 0, hpre |-> 0, ppre1 |-> 0, ppre2 |-> 0]

ResetAPB1ENR1 == [pwren |-> FALSE, lcden |-> FALSE]

ResetCSR == [lsion |-> FALSE, lsirdy |-> FALSE]

\* the CFGR that constrain() builds
DefaultBuilder ==
    [hclk |-> None, pclk1 |-> None, pclk2 |-> None,
     sysclk |-> MediumSpeedInternalRC(4000000, FALSE)]

NoPllArgs == [src |-> PLLClkSourceNone, m |-> 0, n |-> 0, r |-> 0]

NoCall == [fn |-> "none"]

Init ==
    /\ pc = "reset"
    /\ cfgr = DefaultBuilder
    /\ cr = ResetCR
    /\ pllcfgr = ResetPLLCFGR
    /\ \E lse \in BOOLEAN : bdcr = ResetBDCR(lse)
    /\ rcc_cfgr = ResetCFGR
    /\ apb1enr1 = ResetAPB1ENR1
    /\ flash_acr = [latency |-> 0]
    /\ pwr_cr1 = [dbp |-> FALSE]
    /\ csr = ResetCSR
    /\ local = NoLocals
    /\ clocks = None
    /\ log = <<>>
    /\ pll_args = NoPllArgs
    /\ pll_out = None
    /\ call = NoCall
    /\ ret = None

hwregs == <<cr, pllcfgr, bdcr, rcc_cfgr, apb1enr1, flash_acr, pwr_cr1>>

\* what the clock configuration neither reads nor writes
pllvars == <<pll_args, pll_out, call, ret, csr>>

-----------------------------------------------------------------------------
(* RCC.constrain() and the CFGR builder                                    *)

Constrain ==
    /\ pc = "reset"
    /\ pwr_cr1' = [pwr_cr1 EXCEPT !.dbp = TRUE]
    /\ cfgr' = DefaultBuilder
    /\ log' = Append(log, "PWR_CR1.dbp=1")
    /\ pc' = "build"
    /\ UNCHANGED <<cr, pllcfgr, bdcr, rcc_cfgr, apb1enr1, flash_acr, local, clocks, pllvars>>

BuilderFrame == UNCHANGED <<pc, hwregs, local, clocks, log, pllvars>>

Hclk(freq) ==
    /\ pc = "build"
    /\ cfgr' = [cfgr EXCEPT !.hclk = Some(freq)]
    /\ BuilderFrame

Pclk1(freq) ==
    /\ pc = "build"
    /\ cfgr' = [cfgr EXCEPT !.pclk1 = Some(freq)]
    /\ BuilderFrame

Pclk2(freq) ==
    /\ pc = "build"
    /\ cfgr' = [cfgr EXCEPT !.pclk2 = Some(freq)]
    /\ BuilderFrame

Sysclk(src) ==
    /\ pc = "build"
    /\ IF src.kind = "PLL" /\ src.src.kind = "None"
       THEN /\ pc' = "panic"
            /\ UNCHANGED cfgr
       ELSE /\ cfgr' = [cfgr EXCEPT !.sysclk = src]
            /\ UNCHANGED pc
    /\ UNCHANGED <<hwregs, local, clocks, log, pllvars>>

-----------------------------------------------------------------------------
(* The configure procedures, one action per register access                *)

\* the statement after p in a procedure whose statements are `order`
Succ(order, p, last) ==
    LET i == CHOOSE k \in 1..Len(order) : order[k] = p
    IN  IF i = Len(order) THEN last ELSE order[i + 1]

\* the PLL enabled before its configuration is written
PllOrderEnableFirst ==
    <<"pll_off", "pll_wait_off", "pll_on", "pll_cfgr", "pll_wait_rdy", "pll_ren">>

\* PLLClkOutput::configure after the input source: the order of its statements
PllOrder ==
    <<"pll_off", "pll_wait_off", "pll_cfgr", "pll_on", "pll_wait_rdy", "pll_ren">>

\* the clock switch written before the flash latency
FreezeOrderSwitchFirst == <<"cfgr_write", "acr_write", "dbp_clear", "return">>

\* the backup domain locked again before the flash and the clock switch
FreezeOrderUnlockFirst == <<"dbp_clear", "acr_write", "cfgr_write", "return">>

\* CFGR::freeze after the locals: the order of its statements
FreezeOrder == <<"acr_write", "cfgr_write", "dbp_clear", "return">>

\* the oscillator that is configured first
Leaf(s) == IF s.kind = "PLL" THEN s.src ELSE s

LeafEntry(src) ==
    CASE src.kind = "MSI"   -> "msi_cr"
      [] src.kind = "HSI16" -> "hsi_cr"
      [] src.kind = "HSE"   -> "hse_cr"
      [] src.kind = "None"  -> PllOrder[1]

\* where an oscillator's configure returns to
AfterLeaf == IF cfgr.sysclk.kind = "PLL" THEN PllOrder[1] ELSE "compute"

\* CFGR::freeze is entered: dispatch on self.sysclk
Freeze ==
    /\ pc = "build"
    /\ pc' = LeafEntry(Leaf(cfgr.sysclk))
    /\ UNCHANGED <<cfgr, hwregs, local, clocks, log, pllvars>>

MsiCrWrite ==
    /\ pc = "msi_cr"
    /\ LET bits == MsiBits(Leaf(cfgr.sysclk).freq) IN
       IF bits = None
       THEN /\ pc' = "panic"
            /\ UNCHANGED <<cr, log>>
       ELSE /\ cr' = [cr EXCEPT !.msirange = Unwrap(bits), !.msirgsel = TRUE]
            /\ log' = Append(log, "CR.msirange")
            /\ pc' = "msi_wait_rdy"
    /\ UNCHANGED <<cfgr, pllcfgr, bdcr, rcc_cfgr, apb1enr1, flash_acr, pwr_cr1,
                   local, clocks, pllvars>>

\* a configure that takes the auto-calibration path whatever was requested
MsiWaitRdyAlwaysCalibrates ==
    /\ pc = "msi_wait_rdy"
    /\ cr.msirdy
    /\ log' = Append(log, "poll.msirdy=1")
    /\ pc' = "msi_pwren"
    /\ UNCHANGED <<cfgr, hwregs, local, clocks, pllvars>>

MsiWaitRdy ==
    /\ pc = "msi_wait_rdy"
    /\ cr.msirdy
    /\ log' = Append(log, "poll.msirdy=1")
    /\ pc' = IF Leaf(cfgr.sysclk).auto_cal THEN "msi_pwren" ELSE AfterLeaf
    /\ UNCHANGED <<cfgr, hwregs, local, clocks, pllvars>>

MsiPwrEn ==
    /\ pc = "msi_pwren"
    /\ apb1enr1' = [apb1enr1 EXCEPT !.pwren = TRUE]
    /\ log' = Append(log, "APB1ENR1.pwren=1")
    /\ pc' = "msi_lse_off"
    /\ UNCHANGED <<cfgr, cr, pllcfgr, bdcr, rcc_cfgr, flash_acr, pwr_cr1,
                   local, clocks, pllvars>>

MsiLseOff ==
    /\ pc = "msi_lse_off"
    /\ bdcr' = [bdcr EXCEPT !.lseon = FALSE]
    /\ log' = Append(log, "BDCR.lseon=0")
    /\ pc' = "msi_wait_lse_off"
    /\ UNCHANGED <<cfgr, cr, pllcfgr, rcc_cfgr, apb1enr1, flash_acr, pwr_cr1,
                   local, clocks, pllvars>>

MsiWaitLseOff ==
    /\ pc = "msi_wait_lse_off"
    /\ ~bdcr.lserdy
    /\ log' = Append(log, "poll.lserdy=0")
    /\ pc' = "msi_lse_on"
    /\ UNCHANGED <<cfgr, hwregs, local, clocks, pllvars>>

MsiLseOn ==
    /\ pc = "msi_lse_on"
    /\ bdcr' = [bdcr EXCEPT !.lsedrv = 3, !.lseon = TRUE]
    /\ log' = Append(log, "BDCR.lseon=1")
    /\ pc' = "msi_wait_lse_on"
    /\ UNCHANGED <<cfgr, cr, pllcfgr, rcc_cfgr, apb1enr1, flash_acr, pwr_cr1,
                   local, clocks, pllvars>>

\* a poll with a timeout: configure goes on without having seen LSERDY set
MsiWaitLseOnGivesUp ==
    /\ pc = "msi_wait_lse_on"
    /\ log' = Append(log, "poll.lserdy=1")
    /\ pc' = "msi_pllen"
    /\ UNCHANGED <<cfgr, hwregs, local, clocks, pllvars>>

MsiWaitLseOn ==
    /\ pc = "msi_wait_lse_on"
    /\ bdcr.lserdy
    /\ log' = Append(log, "poll.lserdy=1")
    /\ pc' = "msi_pllen"
    /\ UNCHANGED <<cfgr, hwregs, local, clocks, pllvars>>

MsiPllEn ==
    /\ pc = "msi_pllen"
    /\ cr' = [cr EXCEPT !.msipllen = TRUE]
    /\ log' = Append(log, "CR.msipllen=1")
    /\ pc' = AfterLeaf
    /\ UNCHANGED <<cfgr, pllcfgr, bdcr, rcc_cfgr, apb1enr1, flash_acr, pwr_cr1,
                   local, clocks, pllvars>>

HsiCrWrite ==
    /\ pc = "hsi_cr"
    /\ cr' = [cr EXCEPT !.hsion = TRUE,
                        !.hsikeron = Leaf(cfgr.sysclk).always_on,
                        !.hsiasfs = Leaf(cfgr.sysclk).auto_start]
    /\ log' = Append(log, "CR.hsion=1")
    /\ pc' = "hsi_wait_rdy"
    /\ UNCHANGED <<cfgr, pllcfgr, bdcr, rcc_cfgr, apb1enr1, flash_acr, pwr_cr1,
                   local, clocks, pllvars>>

HsiWaitRdy ==
    /\ pc = "hsi_wait_rdy"
    /\ cr.hsirdy
    /\ log' = Append(log, "poll.hsirdy=1")
    /\ pc' = AfterLeaf
    /\ UNCHANGED <<cfgr, hwregs, local, clocks, pllvars>>

HseCrWrite ==
    /\ pc = "hse_cr"
    /\ cr' = [cr EXCEPT !.hseon = TRUE]
    /\ log' = Append(log, "CR.hseon=1")
    /\ pc' = "hse_wait_rdy"
    /\ UNCHANGED <<cfgr, pllcfgr, bdcr, rcc_cfgr, apb1enr1, flash_acr, pwr_cr1,
                   local, clocks, pllvars>>

\* configure returning without the HSERDY poll
HseWaitRdySkipped ==
    /\ pc = "hse_wait_rdy"
    /\ pc' = AfterLeaf
    /\ UNCHANGED <<cfgr, hwregs, local, clocks, log, pllvars>>

HseWaitRdy ==
    /\ pc = "hse_wait_rdy"
    /\ cr.hserdy
    /\ log' = Append(log, "poll.hserdy=1")
    /\ pc' = AfterLeaf
    /\ UNCHANGED <<cfgr, hwregs, local, clocks, pllvars>>

-----------------------------------------------------------------------------
(* PLLClkOutput::configure after self.src.configure(rcc)                   *)

PllOff ==
    /\ pc = "pll_off"
    /\ cr' = [cr EXCEPT !.pllon = FALSE]
    /\ log' = Append(log, "CR.pllon=0")
    /\ pc' = Succ(PllOrder, "pll_off", "compute")
    /\ UNCHANGED <<cfgr, pllcfgr, bdcr, rcc_cfgr, apb1enr1, flash_acr, pwr_cr1,
                   local, clocks, pllvars>>

PllWaitOff ==
    /\ pc = "pll_wait_off"
    /\ ~cr.pllrdy
    /\ log' = Append(log, "poll.pllrdy=0")
    /\ pc' = Succ(PllOrder, "pll_wait_off", "compute")
    /\ UNCHANGED <<cfgr, hwregs, local, clocks, pllvars>>

PllCfgrWrite ==
    /\ pc = "pll_cfgr"
    /\ LET s == cfgr.sysclk
           rbits == PllRBits(s.r)
       IN  IF rbits = None
           THEN /\ pc' = "panic"
                /\ UNCHANGED <<pllcfgr, log>>
           ELSE /\ pllcfgr' = [pllcfgr EXCEPT !.pllsrc = PllSrcBits(s.src),
                                              !.pllm = s.m - 1,
                                              !.plln = s.n,
                                              !.pllr = Unwrap(rbits)]
                /\ log' = Append(log, "PLLCFGR.pllsrc_m_n_r")
                /\ pc' = Succ(PllOrder, "pll_cfgr", "compute")
    /\ UNCHANGED <<cfgr, cr, bdcr, rcc_cfgr, apb1enr1, flash_acr, pwr_cr1,
                   local, clocks, pllvars>>

PllOn ==
    /\ pc = "pll_on"
    /\ cr' = [cr EXCEPT !.pllon = TRUE]
    /\ log' = Append(log, "CR.pllon=1")
    /\ pc' = Succ(PllOrder, "pll_on", "compute")
    /\ UNCHANGED <<cfgr, pllcfgr, bdcr, rcc_cfgr, apb1enr1, flash_acr, pwr_cr1,
                   local, clocks, pllvars>>

PllWaitRdy ==
    /\ pc = "pll_wait_rdy"
    /\ cr.pllrdy
    /\ log' = Append(log, "poll.pllrdy=1")
    /\ pc' = Succ(PllOrder, "pll_wait_rdy", "compute")
    /\ UNCHANGED <<cfgr, hwregs, local, clocks, pllvars>>

PllREn ==
    /\ pc = "pll_ren"
    /\ pllcfgr' = [pllcfgr EXCEPT !.pllren = TRUE]
    /\ log' = Append(log, "PLLCFGR.pllren=1")
    /\ pc' = Succ(PllOrder, "pll_ren", "compute")
    /\ UNCHANGED <<cfgr, cr, bdcr, rcc_cfgr, apb1enr1, flash_acr, pwr_cr1,
                   local, clocks, pllvars>>

-----------------------------------------------------------------------------
(* CFGR::freeze after the source's configure has returned                  *)

\* hpre_bits .. latency: no register is touched; a ratio of 0 panics
FreezeCompute ==
    /\ pc = "compute"
    /\ IF ComputePanics(cfgr)
       THEN /\ pc' = "panic"
            /\ UNCHANGED local
       ELSE /\ local' = ComputeLocals(cfgr)
            /\ pc' = FreezeOrder[1]
    /\ UNCHANGED <<cfgr, hwregs, clocks, log, pllvars>>

\* acr.acr().write(|w| w.latency().bits(latency))
FreezeAcrWrite ==
    /\ pc = "acr_write"
    /\ flash_acr' = [latency |-> local.latency]
    /\ log' = Append(log, "ACR.latency")
    /\ pc' = Succ(FreezeOrder, "acr_write", "done")
    /\ UNCHANGED <<cfgr, cr, pllcfgr, bdcr, rcc_cfgr, apb1enr1, pwr_cr1,
                   local, clocks, pllvars>>

\* the prescalers and the switch committed by two writes of the register
FreezeCfgrWriteSplit ==
    /\ pc = "cfgr_write"
    /\ IF rcc_cfgr.hpre # local.hpre_bits
       THEN /\ rcc_cfgr' = [rcc_cfgr EXCEPT !.ppre2 = local.ppre2_bits,
                                           !.ppre1 = local.ppre1_bits,
                                           !.hpre = local.hpre_bits]
            /\ log' = Append(log, "CFGR.ppre2_ppre1_hpre")
            /\ UNCHANGED pc
       ELSE /\ rcc_cfgr' = [rcc_cfgr EXCEPT !.sw = local.sw_bits]
            /\ log' = Append(log, "CFGR.sw")
            /\ pc' = Succ(FreezeOrder, "cfgr_write", "done")
    /\ UNCHANGED <<cfgr, cr, pllcfgr, bdcr, apb1enr1, flash_acr, pwr_cr1,
                   local, clocks, pllvars>>

\* rcc.cfgr.modify(|_, w| w.ppre2()..ppre1()..hpre()..sw())
FreezeCfgrWrite ==
    /\ pc = "cfgr_write"
    /\ rcc_cfgr' = [rcc_cfgr EXCEPT !.ppre2 = local.ppre2_bits,
                                    !.ppre1 = local.ppre1_bits,
                                    !.hpre = local.hpre_bits,
                                    !.sw = local.sw_bits]
    /\ log' = Append(log, "CFGR.ppre2_ppre1_hpre_sw")
    /\ pc' = Succ(FreezeOrder, "cfgr_write", "done")
    /\ UNCHANGED <<cfgr, cr, pllcfgr, bdcr, apb1enr1, flash_acr, pwr_cr1,
                   local, clocks, pllvars>>

\* (*PWR::ptr()).cr1.modify(|_, w| w.dbp().clear_bit())
FreezeDbpClear ==
    /\ pc = "dbp_clear"
    /\ pwr_cr1' = [pwr_cr1 EXCEPT !.dbp = FALSE]
    /\ log' = Append(log, "PWR_CR1.dbp=0")
    /\ pc' = Succ(FreezeOrder, "dbp_clear", "done")
    /\ UNCHANGED <<cfgr, cr, pllcfgr, bdcr, rcc_cfgr, apb1enr1, flash_acr,
                   local, clocks, pllvars>>

\* a freeze that borrows the builder (&self) and leaves it with the caller
FreezeReturnBorrowsBuilder ==
    /\ pc = "return"
    /\ clocks' = Some(ClocksOf(cfgr, local))
    /\ pc' = "build"
    /\ UNCHANGED <<cfgr, hwregs, local, log, pllvars>>

\* the Clocks value is built and returned
FreezeReturn ==
    /\ pc = "return"
    /\ clocks' = Some(ClocksOf(cfgr, local))
    /\ pc' = Succ(FreezeOrder, "return", "done")
    /\ UNCHANGED <<cfgr, hwregs, local, log, pllvars>>

-----------------------------------------------------------------------------
(* The hardware: a ready flag follows its ON bit                           *)

SwFrame == UNCHANGED <<pc, cfgr, local, clocks, log, pllvars>>

HwHsiRdy ==
    /\ cr.hsirdy # cr.hsion
    /\ cr' = [cr EXCEPT !.hsirdy = cr.hsion]
    /\ UNCHANGED <<pllcfgr, bdcr, rcc_cfgr, apb1enr1, flash_acr, pwr_cr1>>
    /\ SwFrame

HwHseRdy ==
    /\ cr.hserdy # cr.hseon
    /\ cr' = [cr EXCEPT !.hserdy = cr.hseon]
    /\ UNCHANGED <<pllcfgr, bdcr, rcc_cfgr, apb1enr1, flash_acr, pwr_cr1>>
    /\ SwFrame

HwPllRdy ==
    /\ cr.pllrdy # cr.pllon
    /\ cr' = [cr EXCEPT !.pllrdy = cr.pllon]
    /\ UNCHANGED <<pllcfgr, bdcr, rcc_cfgr, apb1enr1, flash_acr, pwr_cr1>>
    /\ SwFrame

HwLseRdy ==
    /\ bdcr.lserdy # bdcr.lseon
    /\ bdcr' = [bdcr EXCEPT !.lserdy = bdcr.lseon]
    /\ UNCHANGED <<cr, pllcfgr, rcc_cfgr, apb1enr1, flash_acr, pwr_cr1>>
    /\ SwFrame

-----------------------------------------------------------------------------
(* The clock-configuration specification                                   *)

Next ==
    \/ Constrain
    \/ \E f \in HclkTargets : Hclk(f)
    \/ \E f \in PclkTargets : Pclk1(f)
    \/ \E f \in PclkTargets : Pclk2(f)
    \/ \E s \in SysClkSources : Sysclk(s)
    \/ Freeze
    \/ MsiCrWrite
    \/ MsiWaitRdy
    \/ MsiPwrEn
    \/ MsiLseOff
    \/ MsiWaitLseOff
    \/ MsiLseOn
    \/ MsiWaitLseOn
    \/ MsiPllEn
    \/ HsiCrWrite
    \/ HsiWaitRdy
    \/ HseCrWrite
    \/ HseWaitRdy
    \/ PllOff
    \/ PllWaitOff
    \/ PllCfgrWrite
    \/ PllOn
    \/ PllWaitRdy
    \/ PllREn
    \/ FreezeCompute
    \/ FreezeAcrWrite
    \/ FreezeCfgrWrite
    \/ FreezeDbpClear
    \/ FreezeReturn
    \/ HwHsiRdy
    \/ HwHseRdy
    \/ HwPllRdy
    \/ HwLseRdy

Spec == Init /\ [][Next]_vars

-----------------------------------------------------------------------------
(* The same program under the scheduling the code relies on: once freeze   *)
(* is entered the processor keeps executing it, and the hardware brings    *)
(* each ready flag to the state of its ON bit.  Whether and when the       *)
(* application calls a setter or freeze is left open.                      *)

FreezeStep ==
    \/ MsiCrWrite
    \/ MsiWaitRdy
    \/ MsiPwrEn
    \/ MsiLseOff
    \/ MsiWaitLseOff
    \/ MsiLseOn
    \/ MsiWaitLseOn
    \/ MsiPllEn
    \/ HsiCrWrite
    \/ HsiWaitRdy
    \/ HseCrWrite
    \/ HseWaitRdy
    \/ PllOff
    \/ PllWaitOff
    \/ PllCfgrWrite
    \/ PllOn
    \/ PllWaitRdy
    \/ PllREn
    \/ FreezeCompute
    \/ FreezeAcrWrite
    \/ FreezeCfgrWrite
    \/ FreezeDbpClear
    \/ FreezeReturn

SpecLive ==
    /\ Init
    /\ [][Next]_vars
    /\ WF_vars(FreezeStep)
    /\ WF_vars(HwHsiRdy)
    /\ WF_vars(HwHseRdy)
    /\ WF_vars(HwPllRdy)
    /\ WF_vars(HwLseRdy)

-----------------------------------------------------------------------------
(* The flat variant of the module (src/rcc.rs).  Its constrain, setters,   *)
(* oscillator configure procedures and freeze read as those of rcc/mod.rs  *)
(* and rcc/clocking.rs; its CFGR::sysclk (rcc.rs:522-532) differs.  The    *)
(* argument of the call is kept in `call`.                                 *)

\* if let PLL(s) = src { if let None = s.src { panic!() } } else { self.sysclk = src; }
SysclkFlat(src) ==
    /\ pc = "build"
    /\ call' = [fn |-> "sysclk", src |-> src]
    /\ IF src.kind = "PLL"
       THEN /\ pc' = IF src.src.kind = "None" THEN "panic" ELSE pc
            /\ UNCHANGED cfgr
       ELSE /\ cfgr' = [cfgr EXCEPT !.sysclk = src]
            /\ UNCHANGED pc
    /\ UNCHANGED <<hwregs, local, clocks, log, pll_args, pll_out, ret, csr>>

\* the PLL is never the builder's source in this variant: its configure is
\* not reached
NextFlat ==
    \/ Constrain
    \/ \E f \in HclkTargets : Hclk(f)
    \/ \E f \in PclkTargets : Pclk1(f)
    \/ \E f \in PclkTargets : Pclk2(f)
    \/ \E s \in SysClkSources : SysclkFlat(s)
    \/ Freeze
    \/ MsiCrWrite
    \/ MsiWaitRdy
    \/ MsiPwrEn
    \/ MsiLseOff
    \/ MsiWaitLseOff
    \/ MsiLseOn
    \/ MsiWaitLseOn
    \/ MsiPllEn
    \/ HsiCrWrite
    \/ HsiWaitRdy
    \/ HseCrWrite
    \/ HseWaitRdy
    \/ FreezeCompute
    \/ FreezeAcrWrite
    \/ FreezeCfgrWrite
    \/ FreezeDbpClear
    \/ FreezeReturn
    \/ HwHsiRdy
    \/ HwHseRdy
    \/ HwLseRdy

SpecFlat == Init /\ [][NextFlat]_vars

-----------------------------------------------------------------------------
(* The backup domain: BDCR::reset, rtc_clock and set_rtc_clock             *)
(* (rcc/mod.rs:151-176) and Power::remove_bdp (power.rs:44-54), called by  *)
(* the application before or after a freeze of the default builder.        *)
(*                                                                         *)
(* BDCR obeys the two hardware rules the source documents: it is write     *)
(* protected unless PWR CR1.DBP is set (rcc/mod.rs:22-26, 140;             *)
(* power.rs:44-52), and RTCSEL, once it holds a source, keeps it until the *)
(* backup domain is reset (rcc/mod.rs:172-173).  During freeze DBP is set, *)
(* so the BDCR writes of the MSI auto-calibration path take effect.        *)

MaxBdcrCalls == 4

RtcClkSources == {"None", "LSI", "LSE", "HSEDiv32"}

\* RtcClkSource::bits: *self as u8, the variants in their declared order
RtcClkSourceBits(clock) ==
    CASE clock = "None"     -> 0
      [] clock = "LSI"      -> 1
      [] clock = "LSE"      -> 2
      [] clock = "HSEDiv32" -> 3

\* BDCR::rtc_clock
RtcClock(b) ==
    CASE b.rtcsel = 0 -> "None"
      [] b.rtcsel = 1 -> "LSE"
      [] b.rtcsel = 2 -> "LSI"
      [] b.rtcsel = 3 -> "HSEDiv32"

\* what BDCR holds after the program writes `new` over `old`
BdcrAfterWrite(old, new) ==
    IF ~pwr_cr1.dbp THEN old
    ELSE IF new.bdrst THEN [ResetBDCR(FALSE) EXCEPT !.bdrst = TRUE]
    ELSE [new EXCEPT !.rtcsel = IF old.rtcsel # 0 THEN old.rtcsel ELSE new.rtcsel]

RtcselEvent(clock) ==
    CASE clock = "None"     -> "BDCR.rtcsel=0"
      [] clock = "LSI"      -> "BDCR.rtcsel=1"
      [] clock = "LSE"      -> "BDCR.rtcsel=2"
      [] clock = "HSEDiv32" -> "BDCR.rtcsel=3"

\* the BDCR calls made so far
BdcrCalls ==
    Cardinality({i \in 1..Len(log) :
        log[i] \in {RtcselEvent(c) : c \in RtcClkSources} \cup {"BDCR.bdrst=1"}})

\* the Rcc handle exists and no freeze is running
AppRuns == pc \in {"build", "done"}

BdcrFrame == UNCHANGED <<pc, cfgr, cr, pllcfgr, rcc_cfgr, apb1enr1, flash_acr,
                         local, clocks, pllvars>>

\* self.inner().modify(|_, write| unsafe { write.rtcsel().bits(clock.bits()) })
BdcrSetRtcClock(clock) ==
    /\ AppRuns
    /\ BdcrCalls < MaxBdcrCalls
    /\ bdcr' = BdcrAfterWrite(bdcr, [bdcr EXCEPT !.rtcsel = RtcClkSourceBits(clock)])
    /\ log' = Append(log, RtcselEvent(clock))
    /\ UNCHANGED pwr_cr1
    /\ BdcrFrame

\* a reset that sets BDRST and never clears it
BdcrResetNoRelease ==
    /\ AppRuns
    /\ BdcrCalls < MaxBdcrCalls
    /\ bdcr' = BdcrAfterWrite(bdcr, [bdcr EXCEPT !.bdrst = TRUE])
    /\ log' = Append(log, "BDCR.bdrst=1")
    /\ UNCHANGED pwr_cr1
    /\ BdcrFrame

\* BDCR::reset: bdrst().set_bit(), then bdrst().clear_bit()
BdcrReset ==
    /\ AppRuns
    /\ BdcrCalls < MaxBdcrCalls
    /\ LET held == BdcrAfterWrite(bdcr, [bdcr EXCEPT !.bdrst = TRUE])
       IN  bdcr' = BdcrAfterWrite(held, [held EXCEPT !.bdrst = FALSE])
    /\ log' = log \o <<"BDCR.bdrst=1", "BDCR.bdrst=0">>
    /\ UNCHANGED pwr_cr1
    /\ BdcrFrame

\* Power::remove_bdp: sets DBP when it is clear and waits for it to read set
RemoveBdp ==
    /\ AppRuns
    /\ ~pwr_cr1.dbp
    /\ pwr_cr1' = [pwr_cr1 EXCEPT !.dbp = TRUE]
    /\ log' = Append(log, "PWR_CR1.dbp=1")
    /\ UNCHANGED bdcr
    /\ BdcrFrame

NextBDCR ==
    \/ Constrain
    \/ Freeze
    \/ MsiCrWrite
    \/ MsiWaitRdy
    \/ FreezeCompute
    \/ FreezeAcrWrite
    \/ FreezeCfgrWrite
    \/ FreezeDbpClear
    \/ FreezeReturn
    \/ \E c \in RtcClkSources : BdcrSetRtcClock(c)
    \/ BdcrReset
    \/ RemoveBdp

SpecBDCR == Init /\ [][NextBDCR]_vars

-----------------------------------------------------------------------------
(* PLLClkOutput::new as a function of its arguments                        *)

PllSources ==
    {PLLClkSourceNone,
     MediumSpeedInternalRC(4000000, FALSE),
     MediumSpeedInternalRC(16000000, FALSE),
     MediumSpeedInternalRC(24000000, FALSE),
     HighSpeedInternal16RC(FALSE, FALSE),
     HighSpeedExternalOSC(8000000),
     HighSpeedExternalOSC(20000000)}

InitPLL ==
    /\ pc = "pll_new"
    /\ cfgr = DefaultBuilder
    /\ cr = ResetCR
    /\ pllcfgr = ResetPLLCFGR
    /\ bdcr = ResetBDCR(FALSE)
    /\ rcc_cfgr = ResetCFGR
    /\ apb1enr1 = ResetAPB1ENR1
    /\ flash_acr = [latency |-> 0]
    /\ pwr_cr1 = [dbp |-> FALSE]
    /\ csr = ResetCSR
    /\ local = NoLocals
    /\ clocks = None
    /\ log = <<>>
    /\ pll_args \in [src : PllSources, m : 0..MaxM, n : MinN..MaxN, r : 0..MaxR]
    /\ pll_out = None
    /\ call = NoCall
    /\ ret = None

PllNewCall ==
    /\ pc = "pll_new"
    /\ pll_out' = Some(PLLClkOutputNew(pll_args.src, pll_args.m, pll_args.n, pll_args.r))
    /\ pc' = IF Unwrap(pll_out').ok THEN "pll_built" ELSE "panic"
    /\ UNCHANGED <<cfgr, hwregs, local, clocks, log, pll_args, call, ret, csr>>

NextPLL == PllNewCall

SpecPLL == InitPLL /\ [][NextPLL]_vars

-----------------------------------------------------------------------------
(* A PLLClkOutput that new returned, made the source of the builder and    *)
(* frozen: RCC.constrain().cfgr.sysclk(SysClkSource::PLL(p)).freeze(..)    *)
(* for every p of the arguments explored above                             *)

\* RCC.constrain() once new has returned
ConstrainAfterNew ==
    /\ pc = "pll_built"
    /\ pwr_cr1' = [pwr_cr1 EXCEPT !.dbp = TRUE]
    /\ cfgr' = DefaultBuilder
    /\ log' = Append(log, "PWR_CR1.dbp=1")
    /\ pc' = "pll_sysclk"
    /\ UNCHANGED <<cr, pllcfgr, bdcr, rcc_cfgr, apb1enr1, flash_acr, local, clocks, pllvars>>

\* .sysclk(SysClkSource::PLL(p)), p the value new returned
SysclkBuilt ==
    /\ pc = "pll_sysclk"
    /\ LET src == SysClkSourcePLL(Unwrap(pll_out)) IN
       IF src.src.kind = "None"
       THEN /\ pc' = "panic"
            /\ UNCHANGED cfgr
       ELSE /\ cfgr' = [cfgr EXCEPT !.sysclk = src]
            /\ pc' = "build"
    /\ UNCHANGED <<hwregs, local, clocks, log, pllvars>>

NextPllCfg ==
    \/ PllNewCall
    \/ ConstrainAfterNew
    \/ SysclkBuilt
    \/ Freeze
    \/ MsiCrWrite
    \/ MsiWaitRdy
    \/ HsiCrWrite
    \/ HsiWaitRdy
    \/ HseCrWrite
    \/ HseWaitRdy
    \/ PllOff
    \/ PllWaitOff
    \/ PllCfgrWrite
    \/ PllOn
    \/ PllWaitRdy
    \/ PllREn
    \/ FreezeCompute
    \/ FreezeAcrWrite
    \/ FreezeCfgrWrite
    \/ FreezeDbpClear
    \/ FreezeReturn
    \/ HwHsiRdy
    \/ HwHseRdy
    \/ HwPllRdy

SpecPllCfg == InitPLL /\ [][NextPllCfg]_vars

-----------------------------------------------------------------------------
(* MediumSpeedInternalRC::new (clocking.rs:72-74) for an arbitrary         *)
(* frequency, the value made the source of the builder and frozen          *)

MaxMsiK == 480

\* multiples of 100 kHz up to 48 MHz and a few frequencies next to valid ones
MsiProbeFreqs ==
    {k * 100000 : k \in 0..MaxMsiK} \cup {99999, 100001, 3999999, 4000001, 48000001}

InitMSI ==
    /\ pc = "msi_new"
    /\ cfgr = DefaultBuilder
    /\ cr = ResetCR
    /\ pllcfgr = ResetPLLCFGR
    /\ bdcr = ResetBDCR(FALSE)
    /\ rcc_cfgr = ResetCFGR
    /\ apb1enr1 = ResetAPB1ENR1
    /\ flash_acr = [latency |-> 0]
    /\ pwr_cr1 = [dbp |-> FALSE]
    /\ csr = ResetCSR
    /\ local = NoLocals
    /\ clocks = None
    /\ log = <<>>
    /\ pll_args = NoPllArgs
    /\ pll_out = None
    /\ call \in [fn : {"msi_new"}, freq : MsiProbeFreqs, auto_cal : BOOLEAN]
    /\ ret = None

\* MediumSpeedInternalRC::new: the arguments are stored, not checked
MsiNewCall ==
    /\ pc = "msi_new"
    /\ ret' = Some(MediumSpeedInternalRC(call.freq, call.auto_cal))
    /\ pc' = "reset"
    /\ UNCHANGED <<cfgr, hwregs, local, clocks, log, pll_args, pll_out, call, csr>>

\* .sysclk(SysClkSource::MSI(s)), s the value new returned
SysclkMsi ==
    /\ call.fn = "msi_new"
    /\ IsSome(ret)
    /\ Sysclk(Unwrap(ret))

NextMSI ==
    \/ MsiNewCall
    \/ Constrain
    \/ SysclkMsi
    \/ Freeze
    \/ MsiCrWrite
    \/ MsiWaitRdy
    \/ MsiPwrEn
    \/ MsiLseOff
    \/ MsiWaitLseOff
    \/ MsiLseOn
    \/ MsiWaitLseOn
    \/ MsiPllEn
    \/ FreezeCompute
    \/ FreezeAcrWrite
    \/ FreezeCfgrWrite
    \/ FreezeDbpClear
    \/ FreezeReturn
    \/ HwLseRdy

SpecMSI == InitMSI /\ [][NextMSI]_vars

-----------------------------------------------------------------------------
(* The prescaler lookups of freeze as functions of the ratio               *)

MaxRatio == 400

\* 1 << (hpre_bits - 0b0111)
HpreOf(hpre_bits) == 2 ^ (hpre_bits - 7)

InitBucket ==
    /\ pc = "lookup"
    /\ cfgr = DefaultBuilder
    /\ cr = ResetCR
    /\ pllcfgr = ResetPLLCFGR
    /\ bdcr = ResetBDCR(FALSE)
    /\ rcc_cfgr = ResetCFGR
    /\ apb1enr1 = ResetAPB1ENR1
    /\ flash_acr = [latency |-> 0]
    /\ pwr_cr1 = [dbp |-> FALSE]
    /\ csr = ResetCSR
    /\ local = NoLocals
    /\ clocks = None
    /\ log = <<>>
    /\ pll_args = NoPllArgs
    /\ pll_out = None
    /\ call \in [fn : {"hpre", "ppre"}, ratio : 1..MaxRatio]
    /\ ret = None

\* one match of freeze applied to Some(ratio), and the divisor of its code
BucketLookup ==
    /\ pc = "lookup"
    /\ ret' = IF call.fn = "hpre"
              THEN LET bits == HpreBits(Some(call.ratio))
                   IN  Some([bits |-> bits, divisor |-> HpreOf(bits)])
              ELSE LET bits == PpreBits(Some(call.ratio))
                   IN  Some([bits |-> bits, divisor |-> PpreOf(bits)])
    /\ pc' = "looked_up"
    /\ UNCHANGED <<cfgr, hwregs, local, clocks, log, pll_args, pll_out, call, csr>>

NextBucket == BucketLookup

SpecBucket == InitBucket /\ [][NextBucket]_vars

-----------------------------------------------------------------------------
(* Spi::new (spi/mod.rs:321-335) called with the Clocks freeze returned:   *)
(* InnerSpi::configure_cr1 computes the BR field from get_clock_freq       *)

SpiInstances == {1, 2, 3}

SpiFreqs == {500, 100000}

\* type APB of each impl InnerSpi
SpiApb(idx) ==
    CASE idx = 1 -> "APB2"
      [] idx = 2 -> "APB1"
      [] idx = 3 -> "APB1"

\* get_clock_freq of each impl InnerSpi
GetClockFreq(idx, c) ==
    CASE idx = 1 -> c.pclk2
      [] idx = 2 -> c.pclk2
      [] idx = 3 -> c.pclk2

\* the match of configure_cr1; None where it is unreachable!()
SpiBr(ratio) ==
    CASE ratio = 0                  -> None
      [] ratio >= 1 /\ ratio <= 2   -> Some(0)
      [] ratio >= 3 /\ ratio <= 5   -> Some(1)
      [] ratio >= 6 /\ ratio <= 11  -> Some(2)
      [] ratio >= 12 /\ ratio <= 23 -> Some(3)
      [] ratio >= 24 /\ ratio <= 39 -> Some(4)
      [] ratio >= 40 /\ ratio <= 95 -> Some(5)
      [] ratio >= 96 /\ ratio <= 191 -> Some(6)
      [] OTHER                      -> Some(7)

\* Spi::new up to the write of CR1: ret holds the bus frequency used and BR
SpiNew(idx, freq) ==
    /\ pc = "done"
    /\ call' = [fn |-> "spi_new", idx |-> idx, freq |-> freq]
    /\ LET clock == GetClockFreq(idx, Unwrap(clocks))
           br    == SpiBr(clock \div freq)
       IN  IF br = None
           THEN /\ ret' = None
                /\ pc' = "panic"
           ELSE /\ ret' = Some([clock |-> clock, br |-> Unwrap(br)])
                /\ pc' = "spi_configured"
    /\ UNCHANGED <<cfgr, hwregs, local, clocks, log, pll_args, pll_out, csr>>

NextSPI ==
    \/ Next
    \/ \E idx \in SpiInstances, freq \in SpiFreqs : SpiNew(idx, freq)

SpecSPI == Init /\ [][NextSPI]_vars

-----------------------------------------------------------------------------
(* calculate_frame_rate (lcd/mod.rs:37-48) as a function of its arguments  *)

MaxPs == 15

MaxDiv == 15

MaxDuty == 5

\* the RTC clocks LCD::validate can pass (LSE, LSI) and the 1 MHz of the test
LcdClocks == {32768, 32000, 1000000}

\* the match on duty; None where it is unreachable!()
DutyFactor(duty) ==
    CASE duty = 0 -> Some(1000)
      [] duty = 1 -> Some(500)
      [] duty = 2 -> Some(333)
      [] duty = 3 -> Some(250)
      [] duty = 4 -> Some(125)
      [] OTHER    -> None

\* the duty factor applied before the division by the prescaler
CalculateFrameRateMulFirst(clock_frequency, ps, div, duty) ==
    IF DutyFactor(duty) = None THEN None
    ELSE Some(((clock_frequency * Unwrap(DutyFactor(duty))) \div ((2 ^ ps) * (16 + div))) \div 1000)

\* clock_frequency / (2u32.pow(ps) * (16 + div)) * match duty {..} / 1000;
\* None where it panics
CalculateFrameRate(clock_frequency, ps, div, duty) ==
    IF DutyFactor(duty) = None THEN None
    ELSE Some(((clock_frequency \div ((2 ^ ps) * (16 + div))) * Unwrap(DutyFactor(duty))) \div 1000)

InitLCD ==
    /\ pc = "frame_rate"
    /\ cfgr = DefaultBuilder
    /\ cr = ResetCR
    /\ pllcfgr = ResetPLLCFGR
    /\ bdcr = ResetBDCR(FALSE)
    /\ rcc_cfgr = ResetCFGR
    /\ apb1enr1 = ResetAPB1ENR1
    /\ flash_acr = [latency |-> 0]
    /\ pwr_cr1 = [dbp |-> FALSE]
    /\ csr = ResetCSR
    /\ local = NoLocals
    /\ clocks = None
    /\ log = <<>>
    /\ pll_args = NoPllArgs
    /\ pll_out = None
    /\ call \in [fn : {"calculate_frame_rate"}, clock_frequency : LcdClocks,
                 ps : 0..MaxPs, div : 0..MaxDiv, duty : 0..MaxDuty]
    /\ ret = None

FrameRateCall ==
    /\ pc = "frame_rate"
    /\ ret' = CalculateFrameRate(call.clock_frequency, call.ps, call.div, call.duty)
    /\ pc' = IF ret' = None THEN "panic" ELSE "frame_rate_known"
    /\ UNCHANGED <<cfgr, hwregs, local, clocks, log, pll_args, pll_out, call, csr>>

NextLCD == FrameRateCall

SpecLCD == InitLCD /\ [][NextLCD]_vars

-----------------------------------------------------------------------------
(* LCD::init_lse (lcd/mod.rs:58-162) and LCD::validate (lcd/mod.rs:202-221),*)
(* called by the application next to the BDCR calls above.  init_lse's     *)
(* GPIO block (lines 62-152) writes AHB2ENR, AHB2RSTR and the GPIO         *)
(* registers only; it is one step here, and into_alt_fun is modelled on    *)
(* its own further down.                                                   *)

\* the return value of a call that returns ()
Returned == Some("()")

\* RtcClkSource::freq
RtcClkSourceFreq(clock, hse) ==
    CASE clock = "None"     -> None
      [] clock = "LSI"      -> Some(32000)
      [] clock = "LSE"      -> Some(32768)
      [] clock = "HSEDiv32" -> IF IsSome(hse) THEN Some(Unwrap(hse).freq \div 32) ELSE None

\* the configurations handed to validate: two rows of its frame-rate table
LcdConfigs == {[ps |-> 3, div |-> 1, duty |-> 4], [ps |-> 4, div |-> 4, duty |-> 0]}

\* LCD::validate: the clock it read, the frame rate and the result
Validate(b, config) ==
    LET f == RtcClkSourceFreq(RtcClock(b), None) IN
    IF f = None
    THEN [result |-> "ClockNotSet", clock_frequency |-> 0, frame_rate |-> 0]
    ELSE LET frame_rate == Unwrap(CalculateFrameRate(Unwrap(f), config.ps, config.div, config.duty))
         IN  [result |-> IF frame_rate < 29 THEN "SmallFrameRate"
                         ELSE IF frame_rate > 110 THEN "BigFrameRate"
                         ELSE "Ok",
              clock_frequency |-> Unwrap(f), frame_rate |-> frame_rate]

LcdFrame == UNCHANGED <<cfgr, cr, pllcfgr, rcc_cfgr, flash_acr, local, clocks,
                        pll_args, pll_out, csr>>

\* init_lse is entered: apb1.enr1().modify(|_, w| w.pwren().set_bit())
LcdInitLse ==
    /\ AppRuns
    /\ BdcrCalls < MaxBdcrCalls
    /\ call' = [fn |-> "init_lse", from |-> pc]
    /\ ret' = None
    /\ apb1enr1' = [apb1enr1 EXCEPT !.pwren = TRUE]
    /\ log' = Append(log, "APB1ENR1.pwren=1")
    /\ pc' = "lcd_gpio"
    /\ UNCHANGED <<bdcr, pwr_cr1>>
    /\ LcdFrame

\* the ports A, B, C enabled and the LCD pins put into alternate function 11
LcdGpioSetup ==
    /\ pc = "lcd_gpio"
    /\ log' = Append(log, "GPIO.lcd_pins")
    /\ pc' = "lcd_remove_bdp"
    /\ UNCHANGED <<bdcr, pwr_cr1, apb1enr1, call, ret>>
    /\ LcdFrame

\* pwr.remove_bdp()
LcdRemoveBdp ==
    /\ pc = "lcd_remove_bdp"
    /\ IF pwr_cr1.dbp
       THEN UNCHANGED <<pwr_cr1, log>>
       ELSE /\ pwr_cr1' = [pwr_cr1 EXCEPT !.dbp = TRUE]
            /\ log' = Append(log, "PWR_CR1.dbp=1")
    /\ pc' = "lcd_lse_enable"
    /\ UNCHANGED <<bdcr, apb1enr1, call, ret>>
    /\ LcdFrame

\* bdcr.lse_enable(true) up to its poll
LcdLseEnable ==
    /\ pc = "lcd_lse_enable"
    /\ IF bdcr.lseon
       THEN /\ pc' = "lcd_set_rtc"
            /\ UNCHANGED <<bdcr, log>>
       ELSE /\ bdcr' = BdcrAfterWrite(bdcr, [bdcr EXCEPT !.lseon = TRUE])
            /\ log' = Append(log, "BDCR.lseon=1")
            /\ pc' = "lcd_wait_lse"
    /\ UNCHANGED <<pwr_cr1, apb1enr1, call, ret>>
    /\ LcdFrame

\* while inner.read().lserdy().bit_is_clear() {}
LcdWaitLse ==
    /\ pc = "lcd_wait_lse"
    /\ bdcr.lserdy
    /\ log' = Append(log, "poll.lserdy=1")
    /\ pc' = "lcd_set_rtc"
    /\ UNCHANGED <<bdcr, pwr_cr1, apb1enr1, call, ret>>
    /\ LcdFrame

\* bdcr.set_rtc_clock(RtcClkSource::LSE)
LcdSetRtcClock ==
    /\ pc = "lcd_set_rtc"
    /\ bdcr' = BdcrAfterWrite(bdcr, [bdcr EXCEPT !.rtcsel = RtcClkSourceBits("LSE")])
    /\ log' = Append(log, RtcselEvent("LSE"))
    /\ pc' = "lcd_lcden"
    /\ UNCHANGED <<pwr_cr1, apb1enr1, call, ret>>
    /\ LcdFrame

\* apb1.enr1().modify(|_, w| w.lcden().set_bit()); init_lse returns
LcdClockOn ==
    /\ pc = "lcd_lcden"
    /\ apb1enr1' = [apb1enr1 EXCEPT !.lcden = TRUE]
    /\ log' = Append(log, "APB1ENR1.lcden=1")
    /\ pc' = call.from
    /\ ret' = Returned
    /\ UNCHANGED <<bdcr, pwr_cr1, call>>
    /\ LcdFrame

\* LCD::validate(lcd, bdcr, &config)
LcdValidate(config) ==
    /\ AppRuns
    /\ call' = [fn |-> "validate", config |-> config]
    /\ ret' = Some(Validate(bdcr, config))
    /\ UNCHANGED <<pc, bdcr, pwr_cr1, apb1enr1, log>>
    /\ LcdFrame

NextLcdInit ==
    \/ NextBDCR
    \/ LcdInitLse
    \/ LcdGpioSetup
    \/ LcdRemoveBdp
    \/ LcdLseEnable
    \/ LcdWaitLse
    \/ LcdSetRtcClock
    \/ LcdClockOn
    \/ \E config \in LcdConfigs : LcdValidate(config)
    \/ HwLseRdy

SpecLcdInit == Init /\ [][NextLcdInit]_vars

-----------------------------------------------------------------------------
(* BDCR::lse_enable (rcc/mod.rs:184-196) and CSR::lsi_enable               *)
(* (rcc/mod.rs:233-245), called by the application before or after a       *)
(* freeze of the default builder.  BDCR is written under the rules of      *)
(* BdcrAfterWrite; CSR is not write protected.  `call` numbers the calls.  *)

MaxOscCalls == 4

\* the number of the last lse_enable / lsi_enable call
OscCallNo == IF call.fn \in {"lse_enable", "lsi_enable"} THEN call.n ELSE 0

OscCall(fn, is_on, wrote) ==
    [fn |-> fn, is_on |-> is_on, from |-> pc, n |-> OscCallNo + 1, wrote |-> wrote]

OnEvent(reg, is_on) ==
    CASE reg = "BDCR" /\ is_on  -> "BDCR.lseon=1"
      [] reg = "BDCR" /\ ~is_on -> "BDCR.lseon=0"
      [] reg = "CSR" /\ is_on   -> "CSR.lsion=1"
      [] reg = "CSR" /\ ~is_on  -> "CSR.lsion=0"

RdyEvent(reg, is_on) ==
    CASE reg = "BDCR" /\ is_on  -> "poll.lserdy=1"
      [] reg = "BDCR" /\ ~is_on -> "poll.lserdy=0"
      [] reg = "CSR" /\ is_on   -> "poll.lsirdy=1"
      [] reg = "CSR" /\ ~is_on  -> "poll.lsirdy=0"

OscFrame == UNCHANGED <<cfgr, cr, pllcfgr, rcc_cfgr, apb1enr1, flash_acr, pwr_cr1,
                        local, clocks, pll_args, pll_out>>

\* an lse_enable without the early return: the write and the poll every time
LseEnableAlwaysWrites(is_on) ==
    /\ AppRuns
    /\ OscCallNo < MaxOscCalls
    /\ call' = OscCall("lse_enable", is_on, TRUE)
    /\ bdcr' = BdcrAfterWrite(bdcr, [bdcr EXCEPT !.lseon = is_on])
    /\ log' = Append(log, OnEvent("BDCR", is_on))
    /\ ret' = None
    /\ pc' = "lse_wait"
    /\ UNCHANGED csr
    /\ OscFrame

\* BDCR::lse_enable(is_on) up to its poll
LseEnable(is_on) ==
    /\ AppRuns
    /\ OscCallNo < MaxOscCalls
    /\ IF bdcr.lseon = is_on
       THEN /\ call' = OscCall("lse_enable", is_on, FALSE)
            /\ ret' = Returned
            /\ UNCHANGED <<bdcr, log, pc>>
       ELSE /\ call' = OscCall("lse_enable", is_on, TRUE)
            /\ bdcr' = BdcrAfterWrite(bdcr, [bdcr EXCEPT !.lseon = is_on])
            /\ log' = Append(log, OnEvent("BDCR", is_on))
            /\ ret' = None
            /\ pc' = "lse_wait"
    /\ UNCHANGED csr
    /\ OscFrame

\* while inner.read().lserdy().bit_is_clear() {} / bit_is_set() {}
LseWait ==
    /\ pc = "lse_wait"
    /\ bdcr.lserdy = call.is_on
    /\ log' = Append(log, RdyEvent("BDCR", call.is_on))
    /\ ret' = Returned
    /\ pc' = call.from
    /\ UNCHANGED <<bdcr, csr, call>>
    /\ OscFrame

\* CSR::lsi_enable(is_on) up to its poll
LsiEnable(is_on) ==
    /\ AppRuns
    /\ OscCallNo < MaxOscCalls
    /\ IF csr.lsion = is_on
       THEN /\ call' = OscCall("lsi_enable", is_on, FALSE)
            /\ ret' = Returned
            /\ UNCHANGED <<csr, log, pc>>
       ELSE /\ call' = OscCall("lsi_enable", is_on, TRUE)
            /\ csr' = [csr EXCEPT !.lsion = is_on]
            /\ log' = Append(log, OnEvent("CSR", is_on))
            /\ ret' = None
            /\ pc' = "lsi_wait"
    /\ UNCHANGED bdcr
    /\ OscFrame

\* while inner.read().lsirdy().bit_is_clear() {} / bit_is_set() {}
LsiWait ==
    /\ pc = "lsi_wait"
    /\ csr.lsirdy = call.is_on
    /\ log' = Append(log, RdyEvent("CSR", call.is_on))
    /\ ret' = Returned
    /\ pc' = call.from
    /\ UNCHANGED <<bdcr, csr, call>>
    /\ OscFrame

\* LSIRDY follows LSION
HwLsiRdy ==
    /\ csr.lsirdy # csr.lsion
    /\ csr' = [csr EXCEPT !.lsirdy = csr.lsion]
    /\ UNCHANGED <<pc, cfgr, hwregs, local, clocks, log, pll_args, pll_out, call, ret>>

NextOsc ==
    \/ Constrain
    \/ Freeze
    \/ MsiCrWrite
    \/ MsiWaitRdy
    \/ FreezeCompute
    \/ FreezeAcrWrite
    \/ FreezeCfgrWrite
    \/ FreezeDbpClear
    \/ FreezeReturn
    \/ RemoveBdp
    \/ \E is_on \in BOOLEAN : LseEnable(is_on)
    \/ LseWait
    \/ \E is_on \in BOOLEAN : LsiEnable(is_on)
    \/ LsiWait
    \/ HwLseRdy
    \/ HwLsiRdy

SpecOsc == Init /\ [][NextOsc]_vars

-----------------------------------------------------------------------------
(* Pin::into_alt_fun (gpio/mod.rs:296-304): the two read-modify-write      *)
(* closures, as functions from the word read to the word written.  A u32   *)
(* register word is its bits, bit 0 the least significant.                 *)

Bit == 0..31

Pins == 0..15

\* AF0 .. AF15: const NUM
AltFunNums == 0..15

\* the word whose set bits are S
Word(S) == [b \in Bit |-> IF b \in S THEN 1 ELSE 0]

\* a u32 literal below 2^16
Lit(n) == [b \in Bit |-> IF b < 16 THEN (n \div (2 ^ b)) % 2 ELSE 0]

\* w << k for k < 32: the bits moved past bit 31 are dropped
Shl(w, k) == [b \in Bit |-> IF b >= k THEN w[b - k] ELSE 0]

\* !w
BitNot(w) == [b \in Bit |-> 1 - w[b]]

\* a & b
BitAnd(a, b) == [i \in Bit |-> a[i] * b[i]]

\* a | b
BitOr(a, b) == [i \in Bit |-> IF a[i] = 1 \/ b[i] = 1 THEN 1 ELSE 0]

\* const OFFSET: u32 = 2 * $i;
OFFSET(i) == 2 * i

\* (r.bits() & !(0b11 << Self::OFFSET)) | (0b10 << Self::OFFSET)
AltFunModerBits(r, i) ==
    BitOr(BitAnd(r, BitNot(Shl(Lit(3), OFFSET(i)))), Shl(Lit(2), OFFSET(i)))

\* (r.bits() & !(0b1111 << Self::OFFSET)) | (AF::NUM << Self::OFFSET)
AltFunAfrBits(r, i, num) ==
    BitOr(BitAnd(r, BitNot(Shl(Lit(15), OFFSET(i)))), Shl(Lit(num), OFFSET(i)))

\* register contents the call may find
GpioWords == {Word({}), Word(Bit), Word({b \in Bit : b % 3 = 0})}

\* the call, with what MODER, AFRL and AFRH hold when it is made
InitGPIO ==
    /\ pc = "into_alt_fun"
    /\ cfgr = DefaultBuilder
    /\ cr = ResetCR
    /\ pllcfgr = ResetPLLCFGR
    /\ bdcr = ResetBDCR(FALSE)
    /\ rcc_cfgr = ResetCFGR
    /\ apb1enr1 = ResetAPB1ENR1
    /\ flash_acr = [latency |-> 0]
    /\ pwr_cr1 = [dbp |-> FALSE]
    /\ csr = ResetCSR
    /\ local = NoLocals
    /\ clocks = None
    /\ log = <<>>
    /\ pll_args = NoPllArgs
    /\ pll_out = None
    /\ call \in [fn : {"into_alt_fun"}, pin : Pins, af : AltFunNums,
                 moder : GpioWords, afrl : GpioWords, afrh : GpioWords]
    /\ ret = None

\* pin.into_alt_fun::<AF>(&mut gpio.moder, &mut gpio.afrl) for an AFRL pin,
\* (.., &mut gpio.afrh) for an AFRH pin; ret is what the three registers hold
\* when it has returned
IntoAltFun ==
    /\ pc = "into_alt_fun"
    /\ ret' = Some([moder |-> AltFunModerBits(call.moder, call.pin),
                    afrl  |-> IF call.pin < 8
                              THEN AltFunAfrBits(call.afrl, call.pin, call.af)
                              ELSE call.afrl,
                    afrh  |-> IF call.pin < 8
                              THEN call.afrh
                              ELSE AltFunAfrBits(call.afrh, call.pin, call.af)])
    /\ pc' = "alt_fun"
    /\ UNCHANGED <<cfgr, hwregs, local, clocks, log, pll_args, pll_out, call, csr>>

NextGPIO == IntoAltFun

SpecGPIO == InitGPIO /\ [][NextGPIO]_vars

-----------------------------------------------------------------------------
(* Properties of PLLClkOutput::new (checked under SpecPLL)                 *)

PllCalled == IsSome(pll_out)

\* a * b >= 2^32, for a < 2^31 and a u8 b, computed on 16-bit halves
Ovf32(a, b) == (a \div 65536) * b + ((a % 65536) * b) \div 65536 >= 65536

\* C3: new panics for every (source, m, n, r), m # 0, whose VCO input
\* source.freq()/m is outside [4 MHz, 16 MHz] or whose VCO output
\* (source.freq()/m)*n is outside [64 MHz, 344 MHz]; every value new
\* returns lies inside both windows.
C3_VcoWindowsEnforced ==
    PllCalled =>
        LET a == pll_args
            o == Unwrap(pll_out)
        IN  a.m # 0 =>
              LET vco_if == SrcFreq(a.src) \div a.m
                  in_if  == vco_if >= 4000000 /\ vco_if <= 16000000
                  in_of  == vco_if * a.n >= 64000000 /\ vco_if * a.n <= 344000000
              IN  /\ (~in_if \/ ~in_of) => ~o.ok
                  /\ o.ok => in_if /\ in_of

\* the scenario of the specification: HSI16, m=1, n=40, r=2 (VCO output 640 MHz)
C3_Witness ==
    /\ PllCalled
    /\ pll_args = [src |-> HighSpeedInternal16RC(FALSE, FALSE), m |-> 1, n |-> 40, r |-> 2]
    /\ ~Unwrap(pll_out).ok
    /\ Unwrap(pll_out).fail = "assert_vco_of"

C5_FreqIsFormulaNoOverflow ==
    PllCalled =>
        LET a == pll_args
            o == Unwrap(pll_out)
        IN  o.ok =>
              /\ a.m \in 1..8 /\ a.n \in 8..86 /\ a.r \in {2, 4, 6, 8}
              /\ PllFreq(o) = ((SrcFreq(a.src) \div a.m) * a.n) \div a.r
              /\ ~Ovf32(SrcFreq(a.src) \div a.m, a.n)

\* an accepted set whose divisions are inexact: 16 MHz / 3 * 13 / 2
C5_Witness ==
    /\ PllCalled
    /\ pll_args = [src |-> MediumSpeedInternalRC(16000000, FALSE), m |-> 3, n |-> 13, r |-> 2]
    /\ Unwrap(pll_out).ok
    /\ PllFreq(Unwrap(pll_out)) = 34666664

\* C6: new panics on one of its three range assertions whenever m is
\* outside 1..8, n outside 8..86 or r not in {2,4,6,8}, whatever the
\* source; m = 0 fails the assertion on m, before any division by m.
C6_RangeAssertsFirst ==
    PllCalled =>
        LET a == pll_args
            o == Unwrap(pll_out)
        IN  /\ (a.m \notin 1..8 \/ a.n \notin 8..86 \/ a.r \notin {2, 4, 6, 8}) =>
                  ~o.ok /\ o.fail \in {"assert_m", "assert_n", "assert_r"}
            /\ a.m = 0 => o.fail = "assert_m"

C6_Witness ==
    /\ PllCalled
    /\ pll_args.m = 0
    /\ pll_args.src.kind = "HSI16"
    /\ pll_args.n \in 8..86 /\ pll_args.r = 2
    /\ Unwrap(pll_out).fail = "assert_m"

-----------------------------------------------------------------------------
(* Properties of the clock configuration (checked under Spec)              *)

Has(e) == \E i \in 1..Len(log) : log[i] = e

Before(e1, e2) == \E i, j \in 1..Len(log) : i < j /\ log[i] = e1 /\ log[j] = e2

Count(e) == Cardinality({i \in 1..Len(log) : log[i] = e})

\* log and expected agree on their common prefix
Agree(expected) ==
    \A i \in 1..Len(log) : i <= Len(expected) => log[i] = expected[i]

CfgrWritten == Has("CFGR.ppre2_ppre1_hpre_sw")

\* C1: freeze of the CFGR that constrain() built, no setter called, returns
\* hclk = pclk1 = pclk2 = sysclk = 4,000,000 (divide-by-1 on every bus).
C1_DefaultFreezeDividesByOne ==
    (pc = "done" /\ cfgr = DefaultBuilder) =>
        /\ Unwrap(clocks).sysclk = 4000000
        /\ Unwrap(clocks).hclk = 4000000
        /\ Unwrap(clocks).pclk1 = 4000000
        /\ Unwrap(clocks).pclk2 = 4000000

\* the five-tier table of the specification
TableLatency(sysclk) ==
    IF sysclk <= 16000000 THEN 0
    ELSE IF sysclk <= 32000000 THEN 1
    ELSE IF sysclk <= 48000000 THEN 2
    ELSE IF sysclk <= 64000000 THEN 3
    ELSE 4

\* C2: the latency code freeze writes to the flash ACR is 0 up to 16 MHz,
\* 1 up to 32 MHz, 2 up to 48 MHz, 3 up to 64 MHz and 4 above.
C2_LatencyFollowsTable ==
    Has("ACR.latency") => flash_acr.latency = TableLatency(SysClkFreq(cfgr.sysclk))

\* the accesses an oscillator's configure makes, in order
LeafTrace(src) ==
    CASE src.kind = "MSI" ->
           <<"CR.msirange", "poll.msirdy=1">> \o
           (IF src.auto_cal
            THEN <<"APB1ENR1.pwren=1", "BDCR.lseon=0", "poll.lserdy=0",
                   "BDCR.lseon=1", "poll.lserdy=1", "CR.msipllen=1">>
            ELSE <<>>)
      [] src.kind = "HSI16" -> <<"CR.hsion=1", "poll.hsirdy=1">>
      [] src.kind = "HSE"   -> <<"CR.hseon=1", "poll.hserdy=1">>
      [] src.kind = "None"  -> <<>>

\* the order the specification gives for PLLClkOutput::configure
PllTrace ==
    <<"CR.pllon=0", "poll.pllrdy=0", "PLLCFGR.pllsrc_m_n_r",
      "CR.pllon=1", "poll.pllrdy=1", "PLLCFGR.pllren=1">>

ConfigureReturned == pc \in {"compute", "acr_write", "cfgr_write", "dbp_clear", "return", "done"}

\* C7: PLLClkOutput::configure configures the input source (its ready poll
\* included), clears PLLON, polls PLLRDY clear, writes PLLSRC/PLLM/PLLN/PLLR,
\* sets PLLON, polls PLLRDY set, sets PLLREN, in this order; the fields are
\* written only while PLLON and PLLRDY are clear, and PLLREN is set only
\* after PLLRDY was seen set.
C7_PllConfigureOrder ==
    (cfgr.sysclk.kind = "PLL" /\ pc \notin {"reset", "build"}) =>
        LET expected == <<"PWR_CR1.dbp=1">> \o LeafTrace(cfgr.sysclk.src) \o PllTrace
        IN  /\ Agree(expected)
            /\ ConfigureReturned => Len(log) >= Len(expected)
            /\ pc = "pll_cfgr" => (~cr.pllon /\ ~cr.pllrdy)
            /\ (pllcfgr.pllsrc # 0 /\ ~Has("CR.pllon=1")) => (~cr.pllon /\ ~cr.pllrdy)
            /\ Has("PLLCFGR.pllsrc_m_n_r") =>
                   /\ Before("poll.pllrdy=0", "PLLCFGR.pllsrc_m_n_r")
                   /\ pllcfgr.pllsrc = PllSrcBits(cfgr.sysclk.src)
                   /\ pllcfgr.pllm = cfgr.sysclk.m - 1
                   /\ pllcfgr.plln = cfgr.sysclk.n
            /\ pllcfgr.pllren => (cr.pllon /\ cr.pllrdy /\ Has("poll.pllrdy=1"))

\* a PLL fed by an auto-calibrated MSI, its configure complete
C7_Witness ==
    /\ pc = "compute"
    /\ cfgr.sysclk.kind = "PLL"
    /\ cfgr.sysclk.src.kind = "MSI"
    /\ cfgr.sysclk.src.auto_cal
    /\ pllcfgr.pllren
    /\ pllcfgr.pllsrc = 1
    /\ Has("poll.lserdy=1")

\* C8: the latency freeze computed for the new SYSCLK is in the flash ACR
\* before the CFGR write that sets SW: in no state has that write happened
\* with the ACR write still to come.
C8_LatencyBeforeSwitch ==
    /\ rcc_cfgr # ResetCFGR => CfgrWritten
    /\ CfgrWritten =>
          /\ Before("ACR.latency", "CFGR.ppre2_ppre1_hpre_sw")
          /\ flash_acr.latency = local.latency
          /\ local.latency = Latency(SysClkFreq(cfgr.sysclk))
          /\ rcc_cfgr.sw = SwBits(cfgr.sysclk)

\* the switch to a 64 MHz PLL: the latency code changed from 0 before SW did
C8_Witness ==
    /\ CfgrWritten
    /\ rcc_cfgr.sw = 3
    /\ SysClkFreq(cfgr.sysclk) = 64000000
    /\ flash_acr.latency # 0

\* C9: HPRE, PPRE1, PPRE2 and SW change together, in one write of RCC_CFGR:
\* the register holds either its four old fields or its four new ones.
C9_CfgrCommittedAtOnce ==
    /\ Count("CFGR.ppre2_ppre1_hpre_sw") <= 1
    /\ IF CfgrWritten
       THEN rcc_cfgr = [sw |-> local.sw_bits, hpre |-> local.hpre_bits,
                        ppre1 |-> local.ppre1_bits, ppre2 |-> local.ppre2_bits]
       ELSE rcc_cfgr = ResetCFGR

\* a write that changed all four fields
C9_Witness ==
    /\ CfgrWritten
    /\ rcc_cfgr.sw # ResetCFGR.sw
    /\ rcc_cfgr.hpre # ResetCFGR.hpre
    /\ rcc_cfgr.ppre1 # ResetCFGR.ppre1
    /\ rcc_cfgr.ppre2 # ResetCFGR.ppre2
    /\ rcc_cfgr.ppre1 # rcc_cfgr.ppre2

\* C10: when freeze writes the SW bits of a source, that source's ON bit is
\* set and its ready flag has been polled set (for the PLL: after PLLON was
\* set), on every path.
C10_SwitchOnlyAfterReady ==
    /\ rcc_cfgr.sw # ResetCFGR.sw => CfgrWritten
    /\ CfgrWritten =>
          LET s == cfgr.sysclk IN
          /\ rcc_cfgr.sw = SwBits(s)
          /\ CASE s.kind = "MSI" ->
                    /\ cr.msion /\ cr.msirdy
                    /\ Before("poll.msirdy=1", "CFGR.ppre2_ppre1_hpre_sw")
               [] s.kind = "HSI16" ->
                    /\ cr.hsion /\ cr.hsirdy
                    /\ Before("CR.hsion=1", "poll.hsirdy=1")
                    /\ Before("poll.hsirdy=1", "CFGR.ppre2_ppre1_hpre_sw")
               [] s.kind = "HSE" ->
                    /\ cr.hseon /\ cr.hserdy
                    /\ Before("CR.hseon=1", "poll.hserdy=1")
                    /\ Before("poll.hserdy=1", "CFGR.ppre2_ppre1_hpre_sw")
               [] s.kind = "PLL" ->
                    /\ cr.pllon /\ cr.pllrdy
                    /\ Before("CR.pllon=1", "poll.pllrdy=1")
                    /\ Before("poll.pllrdy=1", "CFGR.ppre2_ppre1_hpre_sw")

\* SW written for the HSE, after HSEON and the HSERDY poll
C10_Witness ==
    /\ CfgrWritten
    /\ cfgr.sysclk.kind = "HSE"
    /\ rcc_cfgr.sw = 2
    /\ cr.hseon /\ cr.hserdy

-----------------------------------------------------------------------------
(* The backup-domain write access over the session (checked under Spec,    *)
(* where constrain and freeze are the only writers of DBP)                 *)

\* C11: constrain() sets PWR CR1.DBP and freeze clears it as its last
\* hardware action: DBP is set in every state from the end of constrain
\* until freeze's final register write, and clear once freeze has returned.
C11_DbpBracketsSession ==
    /\ pc \notin {"reset", "return", "done"} => pwr_cr1.dbp
    /\ pc \in {"return", "done"} =>
          /\ ~pwr_cr1.dbp
          /\ log[Len(log)] = "PWR_CR1.dbp=0"
    /\ pc = "done" => IsSome(clocks)
    /\ Has("PWR_CR1.dbp=0") =>
          /\ Count("PWR_CR1.dbp=0") = 1
          /\ Before("PWR_CR1.dbp=1", "PWR_CR1.dbp=0")
          /\ Before("ACR.latency", "PWR_CR1.dbp=0")
          /\ Before("CFGR.ppre2_ppre1_hpre_sw", "PWR_CR1.dbp=0")

\* freeze has returned from a PLL configuration: DBP was set, and is clear
C11_Witness ==
    /\ pc = "done"
    /\ IsSome(clocks)
    /\ cfgr.sysclk.kind = "PLL"
    /\ Has("PWR_CR1.dbp=1")
    /\ ~pwr_cr1.dbp

-----------------------------------------------------------------------------
(* The builder is consumed by freeze (checked under Spec)                  *)

\* C12: a configuration is frozen at most once: freeze takes the builder by
\* value, so from its entry on no setter changes the builder, once a Clocks
\* value exists neither a setter nor a second freeze runs on it, and the
\* prescaler/SW fields of RCC_CFGR are written by at most one freeze.
C12_FrozenAtMostOnce ==
    [][ /\ pc \notin {"reset", "build"} => cfgr' = cfgr
        /\ IsSome(clocks) =>
              /\ pc = "done" /\ pc' = "done"
              /\ cfgr' = cfgr /\ clocks' = clocks
              /\ rcc_cfgr' = rcc_cfgr /\ log' = log
        /\ CfgrWritten => rcc_cfgr' = rcc_cfgr
        /\ Cardinality({i \in 1..Len(log') : log'[i] = "CFGR.ppre2_ppre1_hpre_sw"}) <= 1
      ]_vars

\* a builder changed by all four setters, frozen, its Clocks returned
C12_Witness ==
    /\ pc = "done"
    /\ IsSome(clocks)
    /\ IsSome(cfgr.hclk) /\ IsSome(cfgr.pclk1) /\ IsSome(cfgr.pclk2)
    /\ cfgr.sysclk.kind = "HSI16"
    /\ Count("CFGR.ppre2_ppre1_hpre_sw") = 1

-----------------------------------------------------------------------------
(* The RTC clock selection (checked under SpecBDCR)                        *)

StepIs(e) == log' = Append(log, e)

-----------------------------------------------------------------------------
(* Aborts of freeze (checked under Spec)                                   *)

\* C14: whenever a freeze call aborts (a prescaler ratio of 0, or an invalid
\* MSI frequency), no RCC, FLASH or PWR register has been modified by that
\* call: the hardware is in the state it had when freeze was entered.
C14_AbortLeavesHardwareUntouched ==
    pc = "panic" =>
        /\ log = <<"PWR_CR1.dbp=1">>
        /\ cr = ResetCR
        /\ pllcfgr = ResetPLLCFGR
        /\ bdcr \in {ResetBDCR(lse) : lse \in BOOLEAN}
        /\ rcc_cfgr = ResetCFGR
        /\ apb1enr1 = ResetAPB1ENR1
        /\ flash_acr = [latency |-> 0]
        /\ pwr_cr1 = [dbp |-> TRUE]

\* the requested hclk is above SYSCLK
HclkAboveSysclk ==
    IsSome(cfgr.hclk) /\ Unwrap(cfgr.hclk) > SysClkFreq(cfgr.sysclk)

\* a requested pclk is above the AHB frequency freeze derives
PclkAboveAhb ==
    /\ ~RatioPanics(cfgr.hclk)
    /\ ~HclkAboveSysclk
    /\ LET sys_clock == SysClkFreq(cfgr.sysclk)
           ahb == sys_clock \div (2 ^ (HpreBits(Ratio(cfgr.hclk, sys_clock)) - 7))
       IN  \/ IsSome(cfgr.pclk1) /\ Unwrap(cfgr.pclk1) > ahb
           \/ IsSome(cfgr.pclk2) /\ Unwrap(cfgr.pclk2) > ahb

\* C15: if the requested hclk is greater than SYSCLK, or a requested pclk1 or
\* pclk2 is greater than the derived AHB frequency (ratio exactly 0), freeze
\* aborts and produces no Clocks value: it never goes on with a prescaler
\* substituted for the ratio 0, and writes neither the ACR nor RCC_CFGR.
C15_RatioZeroAborts ==
    (HclkAboveSysclk \/ PclkAboveAhb) =>
        /\ clocks = None
        /\ pc \notin {"acr_write", "cfgr_write", "dbp_clear", "return", "done"}
        /\ local = NoLocals
        /\ rcc_cfgr = ResetCFGR
        /\ ~Has("ACR.latency")

\* hclk = 100 MHz requested of an 8 MHz HSE: the HSE was started, then the abort
C15_Witness ==
    /\ pc = "panic"
    /\ cfgr.sysclk = HighSpeedExternalOSC(8000000)
    /\ cfgr.hclk = Some(100000000)
    /\ HclkAboveSysclk
    /\ Has("poll.hserdy=1")

-----------------------------------------------------------------------------
(* The prescaler lookups (checked under SpecBucket)                        *)

\* C16: the AHB and APB lookups are monotonic in the requested ratio: for
\* ratios r1 <= r2, both at least 1, neither the code nor the divisor it
\* encodes is larger for r1 than for r2.
C16_BucketMonotonic ==
    IsSome(ret) =>
        \A r2 \in call.ratio..MaxRatio :
            LET bits2 == IF call.fn = "hpre" THEN HpreBits(Some(r2)) ELSE PpreBits(Some(r2))
                base  == IF call.fn = "hpre" THEN 7 ELSE 3
            IN  /\ Unwrap(ret).bits <= bits2
                /\ Unwrap(ret).divisor <= 2 ^ (bits2 - base)
                /\ Unwrap(ret).divisor >= 1

\* the last ratio of the /16 arm of the AHB lookup, just below the next arm
C16_Witness ==
    /\ IsSome(ret)
    /\ call = [fn |-> "hpre", ratio |-> 39]
    /\ Unwrap(ret) = [bits |-> 11, divisor |-> 16]

-----------------------------------------------------------------------------
(* The polls of freeze (checked under SpecLive)                            *)

\* freeze is at a poll whose flag does not have the awaited value
PollBlocked ==
    \/ pc = "msi_wait_rdy" /\ ~cr.msirdy
    \/ pc = "msi_wait_lse_off" /\ bdcr.lserdy
    \/ pc = "msi_wait_lse_on" /\ ~bdcr.lserdy
    \/ pc = "hsi_wait_rdy" /\ ~cr.hsirdy
    \/ pc = "hse_wait_rdy" /\ ~cr.hserdy
    \/ pc = "pll_wait_off" /\ cr.pllrdy
    \/ pc = "pll_wait_rdy" /\ ~cr.pllrdy

FreezeRunning == pc \notin {"reset", "build", "done", "panic"}

\* the configuration is one freeze aborts on (C14, C15)
FreezeAborts ==
    \/ Leaf(cfgr.sysclk).kind = "MSI" /\ MsiBits(Leaf(cfgr.sysclk).freq) = None
    \/ ComputePanics(cfgr)

-----------------------------------------------------------------------------
(* CFGR::sysclk in the flat variant (checked under SpecFlat)               *)

\* the SW code the specification gives for a source
SwCodeOf(src) ==
    CASE src.kind = "MSI"   -> 0
      [] src.kind = "HSI16" -> 1
      [] src.kind = "HSE"   -> 2
      [] src.kind = "PLL"   -> 3

\* the write that turns a source on
OnEventOf(src) ==
    CASE src.kind = "MSI"   -> "CR.msirange"
      [] src.kind = "HSI16" -> "CR.hsion=1"
      [] src.kind = "HSE"   -> "CR.hseon=1"
      [] src.kind = "PLL"   -> "CR.pllon=1"

\* C18: cfgr.sysclk(src).freeze(..), for every source sysclk accepts,
\* configures that source, returns Clocks.sysclk = src.freq() and writes that
\* source's SW code (MSI 0b00, HSI16 0b01, HSE 0b10, PLL 0b11); here for the
\* flat rcc.rs variant.
C18_SysclkSetsTheSource ==
    (pc = "done" /\ call.fn = "sysclk") =>
        /\ Unwrap(clocks).sysclk = SysClkFreq(call.src)
        /\ rcc_cfgr.sw = SwCodeOf(call.src)
        /\ Has(OnEventOf(call.src))

-----------------------------------------------------------------------------
(* The LCD frame rate (checked under SpecLCD)                              *)

\* the duty factors the claim gives for the codes 0..4
ClaimedDutyFactor == <<1000, 500, 333, 250, 125>>

\* the rows of the unit test (lcd/mod.rs:398-432): clock, ps, div, duty, rate
FrameRateRows ==
    {<<32768, 3, 1, 4, 30>>, <<32768, 4, 1, 3, 30>>, <<32768, 4, 6, 2, 30>>,
     <<32768, 5, 1, 1, 30>>, <<32768, 6, 1, 0, 30>>,
     <<32768, 1, 4, 4, 102>>, <<32768, 2, 4, 3, 102>>, <<32768, 2, 11, 2, 100>>,
     <<32768, 4, 4, 0, 102>>,
     <<1000000, 6, 3, 4, 102>>, <<1000000, 8, 3, 1, 102>>}

\* C19: calculate_frame_rate(clk, ps, div, duty) is
\* floor(floor(clk / (2^ps * (16 + div))) * k / 1000), k = 1000, 500, 333,
\* 250, 125 for the duty codes 0..4, and gives the tabulated rates for the
\* reference-manual rows at 32,768 Hz and 1,000,000 Hz.
C19_FrameRateFormula ==
    (pc # "frame_rate" /\ call.duty \in 0..4) =>
        LET d == (2 ^ call.ps) * (16 + call.div)
            q == call.clock_frequency \div d
            k == ClaimedDutyFactor[call.duty + 1]
        IN  /\ IsSome(ret)
            /\ q * d <= call.clock_frequency /\ call.clock_frequency < (q + 1) * d
            /\ Unwrap(ret) * 1000 <= q * k /\ q * k < (Unwrap(ret) + 1) * 1000
            /\ \A row \in FrameRateRows :
                  (call.clock_frequency = row[1] /\ call.ps = row[2]
                   /\ call.div = row[3] /\ call.duty = row[4]) => Unwrap(ret) = row[5]

\* the 1/3-duty row at about 100 Hz: 32768 / (4 * 27) = 303, 303 * 333 / 1000 = 100
C19_Witness ==
    /\ call = [fn |-> "calculate_frame_rate", clock_frequency |-> 32768,
               ps |-> 2, div |-> 11, duty |-> 2]
    /\ ret = Some(100)

-----------------------------------------------------------------------------
(* The bus an SPI takes its clock from (checked under SpecSPI)             *)

\* C20: each SPI computes its baud-rate divider from the frequency of the
\* APB bus it is attached to: SPI1, on APB2, from Clocks.pclk2; SPI2 and
\* SPI3, on APB1, from Clocks.pclk1.
C20_SpiUsesItsOwnBus ==
    (pc = "spi_configured" /\ call.fn = "spi_new") =>
        LET bus == IF SpiApb(call.idx) = "APB2" THEN Unwrap(clocks).pclk2
                   ELSE Unwrap(clocks).pclk1
        IN  /\ Unwrap(ret).clock = bus
            /\ Some(Unwrap(ret).br) = SpiBr(bus \div call.freq)

-----------------------------------------------------------------------------
(* The RTC clock after LCD::init_lse (checked under SpecLcdInit)            *)

\* init_lse has returned and nothing has been written since
InitLseJustReturned == Len(log) > 0 /\ log[Len(log)] = "APB1ENR1.lcden=1"

\* C21: after LCD::init_lse returns, BDCR::rtc_clock() reports
\* RtcClkSource::LSE, and LCD::validate computes the frame rate from a clock
\* frequency of 32,768 Hz.
C21_InitLseSelectsLse ==
    /\ (InitLseJustReturned /\ call.fn = "init_lse" /\ IsSome(ret)) =>
          RtcClock(bdcr) = "LSE"
    /\ (InitLseJustReturned /\ call.fn = "validate") =>
          /\ Unwrap(ret).clock_frequency = 32768
          /\ Unwrap(ret).frame_rate =
                Unwrap(CalculateFrameRate(32768, call.config.ps, call.config.div, call.config.duty))

-----------------------------------------------------------------------------
(* RtcClkSource::bits against BDCR::rtc_clock (checked under SpecBDCR)      *)

\* C22: for every RtcClkSource c, set_rtc_clock(c) made while RTCSEL holds no
\* source (and the backup domain is writable), followed by rtc_clock(),
\* returns c.
C22_RtcClockRoundTrip ==
    [][ \A c \in RtcClkSources :
          (StepIs(RtcselEvent(c)) /\ bdcr.rtcsel = 0 /\ ~bdcr.bdrst /\ pwr_cr1.dbp) =>
              RtcClock(bdcr') = c
      ]_vars

-----------------------------------------------------------------------------
(* The Clocks value freeze returns (checked under Spec)                    *)

\* C23: every Clocks value returned by freeze has hclk = sysclk / 2^k for
\* some k in 0..8, ppre1 and ppre2 among 1, 2, 4, 8, 16, pclk1 = hclk / ppre1
\* and pclk2 = hclk / ppre2 (the APB frequencies derive from the AHB
\* frequency, not from SYSCLK); hence pclk1 <= hclk <= sysclk and
\* pclk2 <= hclk.
C23_ClocksChain ==
    IsSome(clocks) =>
        LET c == Unwrap(clocks) IN
        /\ c.sysclk = SysClkFreq(cfgr.sysclk)
        /\ \E k \in 0..8 : c.hclk = c.sysclk \div (2 ^ k)
        /\ c.ppre1 \in {1, 2, 4, 8, 16}
        /\ c.ppre2 \in {1, 2, 4, 8, 16}
        /\ c.pclk1 = c.hclk \div c.ppre1
        /\ c.pclk2 = c.hclk \div c.ppre2
        /\ c.pclk1 <= c.hclk /\ c.pclk2 <= c.hclk /\ c.hclk <= c.sysclk

\* SYSCLK 4 MHz, AHB at a quarter of it, APB1 at an eighth of the AHB
C23_Witness ==
    /\ IsSome(clocks)
    /\ Unwrap(clocks).sysclk = 4000000
    /\ Unwrap(clocks).hclk = 1000000
    /\ Unwrap(clocks).pclk1 = 125000
    /\ Unwrap(clocks).ppre1 = 8
    /\ Unwrap(clocks).pclk2 = 1000000

\* the divisors the AHB prescaler has in hardware, and those of an APB prescaler
AhbDivisors == {1, 2, 4, 8, 16, 64, 128, 256, 512}

ApbDivisors == {1, 2, 4, 8, 16}

\* freq is input / d for a d of divisors
Achievable(freq, input, divisors) ==
    \E d \in divisors : input % d = 0 /\ input \div d = freq

\* C24: a requested hclk equal to SYSCLK / d for a hardware AHB divisor d
\* (1, 2, 4, 8, 16, 64, 128, 256, 512) is reported as Clocks.hclk; a
\* requested pclk1 or pclk2 equal to hclk / d, d in {1, 2, 4, 8, 16}, is
\* reported as Clocks.pclk1 or Clocks.pclk2.
C24_AchievableTargetIsMet ==
    IsSome(clocks) =>
        LET c == Unwrap(clocks) IN
        /\ (IsSome(cfgr.hclk) /\ Achievable(Unwrap(cfgr.hclk), c.sysclk, AhbDivisors)) =>
              c.hclk = Unwrap(cfgr.hclk)
        /\ (IsSome(cfgr.pclk1) /\ Achievable(Unwrap(cfgr.pclk1), c.hclk, ApbDivisors)) =>
              c.pclk1 = Unwrap(cfgr.pclk1)
        /\ (IsSome(cfgr.pclk2) /\ Achievable(Unwrap(cfgr.pclk2), c.hclk, ApbDivisors)) =>
              c.pclk2 = Unwrap(cfgr.pclk2)

\* C25: a bus target that is requested and not above its input clock bounds
\* the frozen bus frequency: Clocks.hclk <= requested hclk, Clocks.pclk1 <=
\* requested pclk1, Clocks.pclk2 <= requested pclk2, for every SYSCLK.
C25_BusNeverAboveRequest ==
    IsSome(clocks) =>
        LET c == Unwrap(clocks) IN
        /\ IsSome(cfgr.hclk) => c.hclk <= Unwrap(cfgr.hclk)
        /\ IsSome(cfgr.pclk1) => c.pclk1 <= Unwrap(cfgr.pclk1)
        /\ IsSome(cfgr.pclk2) => c.pclk2 <= Unwrap(cfgr.pclk2)

-----------------------------------------------------------------------------
(* The fields PLLClkOutput::configure writes (checked under SpecPllCfg)    *)

\* the PLLR code the claim gives for r
ClaimedPllR(r) ==
    CASE r = 2 -> 0
      [] r = 4 -> 1
      [] r = 6 -> 2
      [] r = 8 -> 3

\* the PLLSRC code the claim gives for an input
ClaimedPllSrc(kind) ==
    CASE kind = "MSI"   -> 1
      [] kind = "HSI16" -> 2
      [] kind = "HSE"   -> 3

\* C26: for every PLLClkOutput built by new, configure writes PLLM = m - 1,
\* PLLN = n, PLLR = 0b00, 0b01, 0b10, 0b11 for r = 2, 4, 6, 8 and PLLSRC =
\* 0b01, 0b10, 0b11 for an MSI, HSI16, HSE input; the "bad PLL R value" panic
\* is unreachable, new admitting only r in {2, 4, 6, 8}.
C26_PllFieldEncodings ==
    /\ (IsSome(pll_out) /\ Unwrap(pll_out).ok) =>
          /\ pll_args.r \in {2, 4, 6, 8}
          /\ pll_args.src.kind \in {"MSI", "HSI16", "HSE"}
          /\ pc # "panic"
          /\ PllRBits(Unwrap(pll_out).r) # None
    /\ Has("PLLCFGR.pllsrc_m_n_r") =>
          /\ pllcfgr.pllm = pll_args.m - 1
          /\ pllcfgr.plln = pll_args.n
          /\ pllcfgr.pllr = ClaimedPllR(pll_args.r)
          /\ pllcfgr.pllsrc = ClaimedPllSrc(pll_args.src.kind)

\* HSE 20 MHz, m = 2, n = 12, r = 6: PLLM = 1, PLLN = 12, PLLR = 0b10, PLLSRC = 0b11
C26_Witness ==
    /\ Has("PLLCFGR.pllsrc_m_n_r")
    /\ pll_args = [src |-> HighSpeedExternalOSC(20000000), m |-> 2, n |-> 12, r |-> 6]
    /\ pllcfgr.pllm = 1 /\ pllcfgr.plln = 12 /\ pllcfgr.pllr = 2 /\ pllcfgr.pllsrc = 3
    /\ pc = "done"

-----------------------------------------------------------------------------
(* The auto-calibration path of the MSI (checked under Spec)               *)

\* the order the claim gives, after constrain's write of DBP; the PWREN write
\* of the source stands between the MSIRDY poll and the first BDCR write
AutoCalTrace ==
    <<"PWR_CR1.dbp=1", "CR.msirange", "poll.msirdy=1", "APB1ENR1.pwren=1",
      "BDCR.lseon=0", "poll.lserdy=0", "BDCR.lseon=1", "poll.lserdy=1",
      "CR.msipllen=1">>

AutoCalRequested == Leaf(cfgr.sysclk).kind = "MSI" /\ Leaf(cfgr.sysclk).auto_cal

MsiConfigureRunning ==
    pc \in {"msi_cr", "msi_wait_rdy", "msi_pwren", "msi_lse_off",
            "msi_wait_lse_off", "msi_lse_on", "msi_wait_lse_on", "msi_pllen"}

\* C27: with auto-calibration requested, MediumSpeedInternalRC::configure
\* writes the MSI range and waits for MSIRDY, clears LSEON and waits until
\* LSERDY is clear, sets LSEON with LSEDRV = 0b11 and waits until LSERDY is
\* set, and only then sets MSIPLLEN; MSIPLLEN is never set unless LSERDY has
\* been observed set; without auto-calibration neither BDCR nor MSIPLLEN is
\* written.
C27_MsiAutoCalOrder ==
    /\ cr.msipllen =>
          /\ Has("poll.lserdy=1")
          /\ Before("BDCR.lseon=1", "poll.lserdy=1")
          /\ Before("poll.lserdy=1", "CR.msipllen=1")
          /\ bdcr.lseon /\ bdcr.lserdy /\ bdcr.lsedrv = 3
    /\ (pc \notin {"reset", "build"} /\ AutoCalRequested) =>
          /\ Agree(AutoCalTrace)
          /\ (~MsiConfigureRunning /\ pc # "panic") =>
                (Len(log) >= Len(AutoCalTrace) /\ cr.msipllen)
          /\ Has("BDCR.lseon=1") => bdcr.lsedrv = 3
    /\ ~AutoCalRequested =>
          /\ ~cr.msipllen
          /\ bdcr \in {ResetBDCR(lse) : lse \in BOOLEAN}
          /\ apb1enr1 = ResetAPB1ENR1
          /\ ~Has("BDCR.lseon=0") /\ ~Has("BDCR.lseon=1") /\ ~Has("CR.msipllen=1")

\* a 48 MHz MSI with auto-calibration is SYSCLK; LSE was running at reset
C27_Witness ==
    /\ pc = "done"
    /\ cfgr.sysclk = MediumSpeedInternalRC(48000000, TRUE)
    /\ cr.msipllen
    /\ cr.msirange = 11
    /\ log[6] = "poll.lserdy=0"
    /\ Len(log) = Len(AutoCalTrace) + 3

-----------------------------------------------------------------------------
(* MediumSpeedInternalRC::bits (checked under SpecMSI)                     *)

\* the twelve MSI frequencies, that of MSIRANGE code i - 1 at position i
MsiRangeTable ==
    <<100000, 200000, 400000, 800000, 1000000, 2000000, 4000000, 8000000,
      16000000, 24000000, 32000000, 48000000>>

MsiFreqValid(freq) == \E i \in 1..12 : MsiRangeTable[i] = freq

\* C28: bits maps exactly the frequencies 100 k, 200 k, 400 k, 800 k, 1 M,
\* 2 M, 4 M, 8 M, 16 M, 24 M, 32 M and 48 M Hz to the MSIRANGE codes 0..11,
\* in increasing order, and panics for every other frequency; configure on an
\* MSI with an invalid frequency panics before any register has been written.
C28_MsiRangeTableOrPanic ==
    LET freq == Leaf(cfgr.sysclk).freq IN
    /\ \A i, j \in 1..12 : i < j => MsiRangeTable[i] < MsiRangeTable[j]
    /\ Has("CR.msirange") =>
          \E i \in 1..12 : /\ MsiRangeTable[i] = freq
                           /\ cr.msirange = i - 1
                           /\ cr.msirgsel
    /\ pc = "panic" => ~MsiFreqValid(freq)
    /\ (pc \notin {"msi_new", "reset", "build", "msi_cr"} /\ ~MsiFreqValid(freq)) =>
          /\ pc = "panic"
          /\ log = <<"PWR_CR1.dbp=1">>
          /\ cr = ResetCR
          /\ pllcfgr = ResetPLLCFGR
          /\ bdcr = ResetBDCR(FALSE)
          /\ rcc_cfgr = ResetCFGR
          /\ apb1enr1 = ResetAPB1ENR1
          /\ flash_acr = [latency |-> 0]
          /\ clocks = None

\* an MSI of 4.1 MHz with auto-calibration: the panic, and nothing written
C28_Witness ==
    /\ pc = "panic"
    /\ cfgr.sysclk = MediumSpeedInternalRC(4100000, TRUE)
    /\ cr.msirange = ResetCR.msirange
    /\ ~cr.msirgsel

-----------------------------------------------------------------------------
(* lse_enable and lsi_enable (checked under SpecOsc)                       *)

\* this step is the entry of a call of fn with argument is_on
OscEntered(fn, is_on) ==
    /\ call' # call
    /\ call'.fn = fn
    /\ call'.is_on = is_on

\* the last call was fn(is_on), it has returned, and no freeze ran since
OscJustCalled(fn, is_on) ==
    /\ call.fn = fn
    /\ call.is_on = is_on
    /\ call.from = pc
    /\ IsSome(ret)

\* C29: lse_enable(is_on) and lsi_enable(is_on) write no register when the
\* ON bit (LSEON / LSION) already equals is_on; otherwise they write the ON
\* bit and return only once the ready flag (LSERDY / LSIRDY) equals is_on.
\* Either called twice in a row with the same argument leaves the register
\* state that calling it once leaves.
C29_OscEnableIdempotent ==
    [][ \A is_on \in BOOLEAN :
          /\ (OscEntered("lse_enable", is_on) /\ bdcr.lseon = is_on) =>
                (hwregs' = hwregs /\ csr' = csr /\ log' = log /\ ret' = Returned /\ pc' = pc)
          /\ (OscEntered("lsi_enable", is_on) /\ csr.lsion = is_on) =>
                (hwregs' = hwregs /\ csr' = csr /\ log' = log /\ ret' = Returned /\ pc' = pc)
          /\ (OscEntered("lse_enable", is_on) /\ bdcr.lseon # is_on) =>
                /\ log' = Append(log, OnEvent("BDCR", is_on))
                /\ pwr_cr1.dbp => bdcr'.lseon = is_on
                /\ ret' = None /\ pc' = "lse_wait"
          /\ (OscEntered("lsi_enable", is_on) /\ csr.lsion # is_on) =>
                /\ log' = Append(log, OnEvent("CSR", is_on))
                /\ csr'.lsion = is_on
                /\ ret' = None /\ pc' = "lsi_wait"
          /\ (pc = "lse_wait" /\ call.is_on = is_on /\ pc' # pc) =>
                (bdcr.lserdy = is_on /\ bdcr.lseon = is_on /\ bdcr' = bdcr /\ ret' = Returned)
          /\ (pc = "lsi_wait" /\ call.is_on = is_on /\ pc' # pc) =>
                (csr.lsirdy = is_on /\ csr.lsion = is_on /\ csr' = csr /\ ret' = Returned)
          /\ (OscJustCalled("lse_enable", is_on) /\ OscEntered("lse_enable", is_on)) =>
                (hwregs' = hwregs /\ csr' = csr /\ log' = log /\ ret' = Returned)
          /\ (OscJustCalled("lsi_enable", is_on) /\ OscEntered("lsi_enable", is_on)) =>
                (hwregs' = hwregs /\ csr' = csr /\ log' = log /\ ret' = Returned)
      ]_vars

\* lse_enable(true) called twice on an LSE that was off: the first call wrote
\* LSEON and polled LSERDY, the second returned at once
C29_Witness ==
    /\ call = [fn |-> "lse_enable", is_on |-> TRUE, from |-> "build", n |-> 2, wrote |-> FALSE]
    /\ IsSome(ret)
    /\ log = <<"PWR_CR1.dbp=1", "BDCR.lseon=1", "poll.lserdy=1">>
    /\ bdcr.lseon /\ bdcr.lserdy


-----------------------------------------------------------------------------
(* Frame of Pin::into_alt_fun (checked under SpecGPIO)                     *)

\* the 2-bit mode field of pin j in MODER
ModeField(w, j) == w[2 * j] + 2 * w[2 * j + 1]

\* the 4-bit alternate-function field number k (0..7) of AFRL or AFRH
AfField(w, k) == w[4 * k] + 2 * w[4 * k + 1] + 4 * w[4 * k + 2] + 8 * w[4 * k + 3]

\* the alternate-function field of pin j of the port
AfOfPin(regs, j) == IF j < 8 THEN AfField(regs.afrl, j) ELSE AfField(regs.afrh, j - 8)

AltFunReturned == call.fn = "into_alt_fun" /\ IsSome(ret)

\* C30: into_alt_fun::<AF>() on pin i sets pin i's MODER field to 0b10 and
\* pin i's own 4-bit field of AFRL (pins 0-7) or AFRH (pins 8-15) to AF::NUM;
\* the mode and alternate-function fields of every other pin are unchanged.
C30_IntoAltFunFrame ==
    AltFunReturned =>
        \A j \in Pins :
            /\ ModeField(Unwrap(ret).moder, j) =
                   IF j = call.pin THEN 2 ELSE ModeField(call.moder, j)
            /\ AfOfPin(Unwrap(ret), j) =
                   IF j = call.pin THEN call.af ELSE AfOfPin(call, j)
=============================================================================
